---------------------------- MODULE Spec2Model ----------------------------
(***************************************************************************)
(* Streaming transcription pipeline of simple-whisper-app.                 *)
(*                                                                         *)
(*   StreamWhisper        src/src/streaming/stream_whisper.py              *)
(*   RealTimeTranscriber  src/transcription_engine.py                      *)
(*                                                                         *)
(* The pipeline is modelled in its VAD configuration (use_vad = True and   *)
(* a classifier object present); SpecWindow runs the capture callback of   *)
(* the fixed-window configuration.  Three execution contexts interleave at *)
(* statement granularity: the capture callback (PortAudio thread), the     *)
(* processing threads started by start_streaming, and the caller's thread  *)
(* (start_streaming / stop_streaming / get_transcription).                  *)
(*                                                                         *)
(* Audio is a stream of numbered samples; a text is a sequence of          *)
(* one-character strings.                                                  *)
(*                                                                         *)
(* Specifications:                                                         *)
(*   Spec           the whole pipeline, with restarts                      *)
(*   SpecLifecycle  start, capture, dequeue and stop, no inference result  *)
(*   SpecSession    one session, from a successful start_streaming on      *)
(*   SpecSeg        the capture callback and the VAD segmenter alone       *)
(*   SpecWindow     the capture callback and the fixed-window chunker      *)
(*   SpecWindowSession  the fixed-window chunker and a processing thread   *)
(*   SpecGet        the result queue and get_transcription alone           *)
(*   SpecOverlap    StreamWhisper._handle_overlap on decoded texts         *)
(*   SpecEngine     RealTimeTranscriber._process_text_result on texts      *)
(*   SpecEngineReset  RealTimeTranscriber.process_audio_chunk and reset    *)
(***************************************************************************)
EXTENDS Integers, Sequences, FiniteSets, TLC

(***************************************************************************)
(* Bounds of the model and the configuration it is run with.               *)
(***************************************************************************)

\* capacity of the work queue in the model (the code constructs it with
\* maxsize=10, stream_whisper.py:89; the queue code is the same for any capacity)
QueueMaxsize == 2

\* start_streaming calls in one run
MaxStarts == 2

\* frames the capture source delivers in one run
MaxFrames == 3

\* frames the capture source delivers in one run of the segmenter alone
SegmenterFrames == 6

\* largest capture block of any configuration, in samples
MaxBlock == 5

\* processing threads that can be alive at once
MaxWorkers == 2

\* inference calls that return a text in one run
MaxResults == 2

\* frame length used for the classifier
frame_duration_ms == 10

\* get_transcription keeps the last 50 results
ContextLimit == 50

\* _handle_overlap keeps the last 3 words
TrailingWords == 3

None == "None"

\* self.processing_thread before the first start_streaming
NoThread == 0

(***************************************************************************)
(* Texts: Python str operations on sequences of characters.                *)
(***************************************************************************)

WhitespaceChars == {" ", "\t"}

Last(s) == s[Len(s)]

Front(s) == SubSeq(s, 1, Len(s) - 1)

RECURSIVE LStrip(_)
LStrip(s) ==
    IF s # <<>> /\ Head(s) \in WhitespaceChars THEN LStrip(Tail(s)) ELSE s

RECURSIVE RStrip(_)
RStrip(s) ==
    IF s # <<>> /\ Last(s) \in WhitespaceChars THEN RStrip(Front(s)) ELSE s

\* str.strip()
Strip(s) == RStrip(LStrip(s))

\* str.startswith(p)
StartsWith(s, p) == Len(p) <= Len(s) /\ SubSeq(s, 1, Len(p)) = p

\* s[n:]
DropFirst(s, n) == SubSeq(s, n + 1, Len(s))

\* the first whitespace-free run of s, s having no leading whitespace
RECURSIVE FirstWord(_)
FirstWord(s) ==
    IF s = <<>> \/ Head(s) \in WhitespaceChars THEN <<>>
    ELSE <<Head(s)>> \o FirstWord(Tail(s))

\* str.split(): the whitespace-separated words
RECURSIVE Split(_)
Split(s) ==
    LET t == LStrip(s)
    IN  IF t = <<>> THEN <<>>
        ELSE <<FirstWord(t)>> \o Split(DropFirst(t, Len(FirstWord(t))))

\* " ".join(words)
RECURSIVE JoinWords(_)
JoinWords(ws) ==
    IF ws = <<>> THEN <<>>
    ELSE IF Len(ws) = 1 THEN ws[1]
    ELSE ws[1] \o <<" ">> \o JoinWords(Tail(ws))

\* words[-n:]
LastN(ws, n) == IF Len(ws) <= n THEN ws ELSE SubSeq(ws, Len(ws) - n + 1, Len(ws))

(***************************************************************************)
(* State.                                                                  *)
(***************************************************************************)

VARIABLES
    \* StreamWhisper fields
    is_streaming,            \* self.is_streaming
    audio_queue,             \* self.audio_queue: segments, oldest first
    result_queue,            \* self.result_queue: results, oldest first
    speech_buffer,           \* self.speech_buffer, as the concatenation of its frames
    silence_frames,          \* self.silence_frames
    last_chunk_text,         \* self.last_chunk_text
    language,                \* self.language
    user_language,           \* self.user_language
    transcription_context,   \* self.transcription_context
    full_transcription_text, \* self.full_transcription_text
    processing_thread,       \* self.processing_thread: a worker, or NoThread
    stream_open,             \* self.stream is started and not yet stopped
    \* execution contexts
    cb,                      \* the capture callback: position and locals
    wk,                      \* the processing threads: position and locals
    main_pc,                 \* the caller's position in start/stop_streaming
    \* environment
    captured,                \* samples delivered by the capture source so far
    results_made,            \* inference calls that returned a text so far
    starts,                  \* start_streaming calls so far
    cfg,                     \* constructor arguments and the capture block size
    \* history
    frame_log,               \* the frames classified this session, with is_speech
    deq_count,               \* segments dequeued by workers so far
    stop_buf,                \* speech_buffer when stop_streaming was last called
    get_log,                 \* the get_transcription calls of this session that took a
                             \* result off the result queue, with what they returned
    failed,                  \* the dequeued segments whose inference raised
    sf_file,                 \* self.sf_file: None, or the open recording
    text_file,               \* self.text_file: None, or the open text file
    audio_buffer,            \* self.audio_buffer (fixed-window mode), as one sequence of samples
    win_log,                 \* history: what each fixed-window callback found and emitted
    \* _handle_overlap called on its own
    ov,
    \* RealTimeTranscriber
    eng,                     \* the transcriber's fields
    eng_call,                \* argument and result of the last _process_text_result
    eng_log                  \* every entry _update_context has appended, in order

streamVars == <<is_streaming, audio_queue, result_queue, speech_buffer,
                silence_frames, last_chunk_text, language, user_language,
                transcription_context, full_transcription_text,
                processing_thread, stream_open>>

threadVars == <<cb, wk, main_pc>>

envVars == <<captured, results_made, starts, cfg>>

histVars == <<frame_log, deq_count, stop_buf>>

callVars == <<get_log, failed>>

fileVars == <<sf_file, text_file>>

winVars == <<audio_buffer, win_log>>

unitVars == <<ov, eng, eng_call, eng_log>>

vars == <<streamVars, threadVars, envVars, histVars, callVars, fileVars, winVars, unitVars>>

Workers == 1..MaxWorkers

\* what model.detect_language answers
Languages == {"en", "fr"}

\* the callback between two invocations; inside one, raised says that the
\* classifier raised on the frame being handled
CbIdle ==
    [pc |-> "idle", data |-> <<>>, i |-> 0, chunk |-> <<>>, forced |-> FALSE,
     raised |-> FALSE]

WkDead == [pc |-> "dead", chunk |-> <<>>, n |-> 0]

OvInit == [text_in |-> <<>>, last_in |-> <<>>, text_out |-> <<>>, called |-> FALSE]

(***************************************************************************)
(* StreamWhisper._handle_overlap (the overlap reconciler).                 *)
(***************************************************************************)

\* the remainder without the strip()
OverlapRemainder_Untrimmed(current_text, last) == DropFirst(current_text, Len(last))

\* current_text[overlap_len:].strip()
OverlapRemainder(current_text, last) == Strip(DropFirst(current_text, Len(last)))

\* a reconciliation that returns a chunk that repeats last_chunk_text
ReconciledText_KeepsDuplicate(text, last) ==
    LET current_text == Strip(text)
    IN  IF current_text = <<>> THEN <<>>
        ELSE IF last # <<>> /\ StartsWith(current_text, last) /\ Len(current_text) > Len(last)
             THEN OverlapRemainder(current_text, last)
             ELSE text

\* the text stored in chunk_result["text"]; text is the text it arrived with
ReconciledText(text, last) ==
    LET current_text == Strip(text)
    IN  IF current_text = <<>> THEN <<>>
        ELSE IF last # <<>> /\ StartsWith(current_text, last)
             THEN IF Len(current_text) > Len(last)
                  THEN OverlapRemainder(current_text, last)
                  ELSE <<>>
             ELSE text

\* self.last_chunk_text after the call
NextLastChunkText(text, last) ==
    LET current_text == Strip(text)
        words == Split(current_text)
    IN  IF current_text = <<>> THEN last
        ELSE IF Len(words) > TrailingWords
             THEN JoinWords(LastN(words, TrailingWords))
             ELSE current_text

(***************************************************************************)
(* The VAD segmenter, StreamWhisper._process_audio_with_vad, run by the    *)
(* capture callback StreamWhisper._audio_callback.                         *)
(***************************************************************************)

VadOutcomes == {"speech", "silence", "error"}

\* self.vad.is_speech raised, and "except Exception" caught it
Raised(outcome) == outcome = "error"

\* a classifier whose failure counts as speech
IsSpeech_ErrorIsSpeech(outcome) == outcome # "silence"

\* is_speech after the try/except around self.vad.is_speech
IsSpeech(outcome) == outcome = "speech"

\* a threshold that has to be exceeded, not reached
SilenceReached_Exceeded(n) == n * frame_duration_ms > cfg.silence_duration_ms

\* silence_duration_ms >= self.silence_duration_ms
SilenceReached(n) == n * frame_duration_ms >= cfg.silence_duration_ms

\* a threshold emission that does not look at the buffer
SegmentComplete_AnyBuffer(n, buf) == SilenceReached(n)

\* if silence_duration_ms >= self.silence_duration_ms: if self.speech_buffer:
SegmentComplete(n, buf) == SilenceReached(n) /\ buf # <<>>

\* a cap that has to be exceeded, not reached
CapReached_Exceeded(buf) == Len(buf) > cfg.max_duration_samples

\* total_samples >= max_duration_samples
CapReached(buf) == Len(buf) >= cfg.max_duration_samples

\* queue.Queue.put(block=False) raises queue.Full
QueueFull(q) == Len(q) >= QueueMaxsize

Min(a, b) == IF a < b THEN a ELSE b

\* self.sf_file after "if self.sf_file is not None: self.sf_file.write(indata)",
\* whose exception is caught and sets self.sf_file = None
AfterWrite(file, written) == IF file # None /\ ~written THEN None ELSE file

\* the audio subsystem invokes the callback with n new samples
AudioCallback(n) ==
    /\ stream_open
    /\ cb.pc = "idle"
    /\ n <= cfg.max_block
    /\ captured + n <= cfg.frames * cfg.samples_per_frame
    /\ cb' = [CbIdle EXCEPT !.pc = "loop",
                             !.data = [k \in 1..n |-> captured + k]]
    /\ captured' = captured + n
    /\ \E written \in BOOLEAN : sf_file' = AfterWrite(sf_file, written)
    /\ UNCHANGED <<streamVars, wk, main_pc, results_made, starts, cfg, histVars, callVars,
                   text_file, winVars, unitVars>>

\* a put that does not look at the capacity of the queue
PutNowait_Unchecked(q, chunk) == Append(q, chunk)

\* speech_chunk = np.concatenate(self.speech_buffer); self.audio_queue.put(
\* speech_chunk, block=False): the queue after it, and where the callback goes
PutNowait(q, chunk) == IF QueueFull(q) THEN q ELSE Append(q, chunk)

AfterPut(q) == IF QueueFull(q) THEN "evict" ELSE "clear"

\* one iteration of the frame loop, up to the first put of a completed segment
VadFrame ==
    /\ cb.pc = "loop"
    /\ cb.i < Len(cb.data)
    /\ LET frame == SubSeq(cb.data, cb.i + 1, Min(cb.i + cfg.samples_per_frame, Len(cb.data)))
           next  == [cb EXCEPT !.i = @ + cfg.samples_per_frame, !.raised = FALSE]
       IN  IF Len(frame) < cfg.samples_per_frame
           THEN /\ cb' = next
                /\ UNCHANGED <<speech_buffer, silence_frames, frame_log, audio_queue>>
           ELSE \E outcome \in VadOutcomes :
                  IF IsSpeech(outcome)
                  THEN /\ speech_buffer' = speech_buffer \o frame
                       /\ silence_frames' = 0
                       /\ frame_log' = Append(frame_log, [is_speech |-> TRUE, frame |-> frame])
                       /\ cb' = [next EXCEPT !.raised = Raised(outcome)]
                       /\ UNCHANGED audio_queue
                  ELSE /\ silence_frames' = silence_frames + 1
                       /\ frame_log' = Append(frame_log, [is_speech |-> FALSE, frame |-> frame])
                       /\ UNCHANGED speech_buffer
                       /\ IF SegmentComplete(silence_frames + 1, speech_buffer)
                          THEN /\ audio_queue' = PutNowait(audio_queue, speech_buffer)
                               /\ cb' = [cb EXCEPT !.pc = AfterPut(audio_queue),
                                                   !.chunk = speech_buffer,
                                                   !.raised = Raised(outcome)]
                          ELSE /\ cb' = [next EXCEPT !.raised = Raised(outcome)]
                               /\ UNCHANGED audio_queue
    /\ UNCHANGED <<is_streaming, result_queue, last_chunk_text, language,
                   user_language, transcription_context, full_transcription_text,
                   processing_thread, stream_open, wk, main_pc, envVars,
                   deq_count, stop_buf, callVars, fileVars, winVars, unitVars>>

\* the safety check after the frame loop, up to the first put of a forced segment
VadSafetyCheck ==
    /\ cb.pc = "loop"
    /\ cb.i >= Len(cb.data)
    /\ IF speech_buffer # <<>> /\ CapReached(speech_buffer)
       THEN /\ audio_queue' = PutNowait(audio_queue, speech_buffer)
            /\ cb' = [cb EXCEPT !.pc = AfterPut(audio_queue), !.chunk = speech_buffer,
                                !.forced = TRUE, !.raised = FALSE]
       ELSE /\ cb' = CbIdle
            /\ UNCHANGED audio_queue
    /\ UNCHANGED <<is_streaming, result_queue, speech_buffer, silence_frames,
                   last_chunk_text, language, user_language, transcription_context,
                   full_transcription_text, processing_thread, stream_open,
                   wk, main_pc, envVars, histVars, callVars, fileVars, winVars, unitVars>>

\* except queue.Full: self.audio_queue.get_nowait(); queue.Empty is passed over
VadEvict ==
    /\ cb.pc = "evict"
    /\ IF audio_queue = <<>>
       THEN /\ cb' = [cb EXCEPT !.pc = "clear"]
            /\ UNCHANGED audio_queue
       ELSE /\ audio_queue' = Tail(audio_queue)
            /\ cb' = [cb EXCEPT !.pc = "reput"]
    /\ UNCHANGED <<is_streaming, result_queue, speech_buffer, silence_frames,
                   last_chunk_text, language, user_language, transcription_context,
                   full_transcription_text, processing_thread, stream_open,
                   wk, main_pc, envVars, histVars, callVars, fileVars, winVars, unitVars>>

\* the second put, inside the handler of queue.Full: a queue.Full raised here
\* is caught by nothing and leaves the callback
VadReput ==
    /\ cb.pc = "reput"
    /\ IF QueueFull(audio_queue)
       THEN /\ cb' = [cb EXCEPT !.pc = "raised"]
            /\ UNCHANGED audio_queue
       ELSE /\ audio_queue' = Append(audio_queue, cb.chunk)
            /\ cb' = [cb EXCEPT !.pc = "clear"]
    /\ UNCHANGED <<is_streaming, result_queue, speech_buffer, silence_frames,
                   last_chunk_text, language, user_language, transcription_context,
                   full_transcription_text, processing_thread, stream_open,
                   wk, main_pc, envVars, histVars, callVars, fileVars, winVars, unitVars>>

\* self.speech_buffer = [] and on to the next frame, or out of the callback
VadClear ==
    /\ cb.pc = "clear"
    /\ speech_buffer' = <<>>
    /\ cb' = IF cb.forced THEN CbIdle
             ELSE [cb EXCEPT !.pc = "loop", !.i = @ + cfg.samples_per_frame, !.chunk = <<>>,
                             !.raised = FALSE]
    /\ UNCHANGED <<is_streaming, audio_queue, result_queue, silence_frames,
                   last_chunk_text, language, user_language, transcription_context,
                   full_transcription_text, processing_thread, stream_open,
                   wk, main_pc, envVars, histVars, callVars, fileVars, winVars, unitVars>>

(***************************************************************************)
(* The fixed-window chunker: the else branch of _audio_callback and        *)
(* _extract_chunk_from_buffer, taken when use_vad is False or no VAD is    *)
(* available.  audio_buffer is the list of the blocks not yet extracted.   *)
(***************************************************************************)

\* np.concatenate(blocks, axis=0)
RECURSIVE Concatenate(_)
Concatenate(blocks) ==
    IF blocks = <<>> THEN <<>> ELSE Head(blocks) \o Concatenate(Tail(blocks))

\* buffer_length = sum(len(chunk) for chunk in self.audio_buffer)
RECURSIVE BufferLength(_)
BufferLength(buffer) ==
    IF buffer = <<>> THEN 0 ELSE Len(Head(buffer)) + BufferLength(Tail(buffer))

\* the loop "while remaining > 0 and self.audio_buffer": whole blocks are
\* popped while they fit, and the block that does not fit is split
RECURSIVE Collect(_, _, _)
Collect(buffer, remaining, collected) ==
    IF remaining > 0 /\ buffer # <<>>
    THEN LET chunk == Head(buffer)
         IN  IF Len(chunk) <= remaining
             THEN Collect(Tail(buffer), remaining - Len(chunk), Append(collected, chunk))
             ELSE [collected |-> Append(collected, SubSeq(chunk, 1, remaining)),
                   buffer    |-> <<SubSeq(chunk, remaining + 1, Len(chunk))>> \o Tail(buffer),
                   remaining |-> 0]
    ELSE [collected |-> collected, buffer |-> buffer, remaining |-> remaining]

\* a chunker that keeps no overlap
RetainsOverlap_Never(target_size, chunk_data) == FALSE

\* if target_size == self.samples_per_chunk and self.samples_overlap > 0 and
\* len(chunk_data) > self.samples_overlap
RetainsOverlap(target_size, chunk_data) ==
    /\ target_size = cfg.samples_per_chunk
    /\ cfg.samples_overlap > 0
    /\ Len(chunk_data) > cfg.samples_overlap

\* chunk_data[overlap_start:]
OverlapData(chunk_data) ==
    SubSeq(chunk_data, Len(chunk_data) - cfg.samples_overlap + 1, Len(chunk_data))

\* _extract_chunk_from_buffer(target_size): what it returns (found is FALSE
\* for None) and self.audio_buffer after it
ExtractChunkFromBuffer(buffer, target_size) ==
    IF buffer = <<>>
    THEN [found |-> FALSE, chunk_data |-> <<>>, audio_buffer |-> buffer]
    ELSE LET c == Collect(buffer, target_size, <<>>)
             chunk_data == Concatenate(c.collected)
         IN  IF c.remaining > 0
             THEN [found |-> FALSE, chunk_data |-> <<>>,
                   audio_buffer |-> IF c.collected # <<>> THEN <<chunk_data>> ELSE <<>>]
             ELSE [found |-> TRUE, chunk_data |-> chunk_data,
                   audio_buffer |-> IF RetainsOverlap(target_size, chunk_data)
                                    THEN <<OverlapData(chunk_data)>> \o c.buffer
                                    ELSE c.buffer]

\* a chunker that emits full chunks only
ChunkTarget_FullOnly(buffer_length) ==
    IF buffer_length >= cfg.samples_per_chunk THEN cfg.samples_per_chunk ELSE 0

\* the target_size that _audio_callback extracts with, 0 if it extracts nothing:
\* "if buffer_length >= self.samples_per_chunk ... elif buffer_length >=
\* self.samples_per_min_chunk"
ChunkTarget(buffer_length) ==
    IF buffer_length >= cfg.samples_per_chunk THEN cfg.samples_per_chunk
    ELSE IF buffer_length >= cfg.samples_per_min_chunk THEN cfg.samples_per_min_chunk
    ELSE 0

\* the callback of the fixed-window mode with n new samples, up to the first
\* put of the extracted chunk
ChunkCallback(n) ==
    /\ stream_open
    /\ cb.pc = "idle"
    /\ n <= cfg.max_block
    /\ captured + n <= cfg.frames * cfg.samples_per_frame
    /\ captured' = captured + n
    /\ \E written \in BOOLEAN : sf_file' = AfterWrite(sf_file, written)
    /\ LET indata    == [k \in 1..n |-> captured + k]
           appended  == Append(audio_buffer, indata)
           target    == ChunkTarget(BufferLength(appended))
           extracted == IF target = 0
                        THEN [found |-> FALSE, chunk_data |-> <<>>, audio_buffer |-> appended]
                        ELSE ExtractChunkFromBuffer(appended, target)
       IN  /\ audio_buffer' = extracted.audio_buffer
           /\ win_log' = Append(win_log, [buffered |-> Concatenate(appended),
                                          found    |-> extracted.found,
                                          chunk    |-> extracted.chunk_data,
                                          left     |-> Concatenate(extracted.audio_buffer)])
           /\ IF extracted.found
              THEN /\ audio_queue' = PutNowait(audio_queue, extracted.chunk_data)
                   /\ cb' = IF QueueFull(audio_queue)
                            THEN [CbIdle EXCEPT !.pc = "chunk_evict",
                                                !.chunk = extracted.chunk_data]
                            ELSE CbIdle
              ELSE UNCHANGED <<audio_queue, cb>>
    /\ UNCHANGED <<is_streaming, result_queue, speech_buffer, silence_frames,
                   last_chunk_text, language, user_language, transcription_context,
                   full_transcription_text, processing_thread, stream_open,
                   wk, main_pc, results_made, starts, cfg, histVars, callVars,
                   text_file, unitVars>>

\* except queue.Full: self.audio_queue.get_nowait(); queue.Empty is passed over
ChunkEvict ==
    /\ cb.pc = "chunk_evict"
    /\ IF audio_queue = <<>>
       THEN /\ cb' = CbIdle
            /\ UNCHANGED audio_queue
       ELSE /\ audio_queue' = Tail(audio_queue)
            /\ cb' = [cb EXCEPT !.pc = "chunk_reput"]
    /\ UNCHANGED <<is_streaming, result_queue, speech_buffer, silence_frames,
                   last_chunk_text, language, user_language, transcription_context,
                   full_transcription_text, processing_thread, stream_open,
                   wk, main_pc, envVars, histVars, callVars, fileVars, winVars, unitVars>>

\* the second put of the chunk, inside the handler of queue.Full
ChunkReput ==
    /\ cb.pc = "chunk_reput"
    /\ IF QueueFull(audio_queue)
       THEN /\ cb' = [cb EXCEPT !.pc = "raised"]
            /\ UNCHANGED audio_queue
       ELSE /\ audio_queue' = Append(audio_queue, cb.chunk)
            /\ cb' = CbIdle
    /\ UNCHANGED <<is_streaming, result_queue, speech_buffer, silence_frames,
                   last_chunk_text, language, user_language, transcription_context,
                   full_transcription_text, processing_thread, stream_open,
                   wk, main_pc, envVars, histVars, callVars, fileVars, winVars, unitVars>>

(***************************************************************************)
(* The processing thread, StreamWhisper._process_audio_chunks.             *)
(***************************************************************************)

\* what whisper.decode can return as result.text
DecodeTexts == {<<"a">>, <<"a", " ", "b">>, <<" ">>}

\* how the inference calls of one _transcribe_chunk end: an exception, caught
\* by "except Exception" (return None), or a decoded text
DecodeOutcomes ==
    {[kind |-> "fail", text |-> <<>>]} \cup [kind : {"text"}, text : DecodeTexts]

\* how model.detect_language ends: a language, or an exception
DetectOutcomes == Languages \cup {"raise"}

\* if self.language is None
NeedsDetection(current) == current = None

\* a thread is inside _transcribe_chunk
InTranscribeChunk(w) == wk[w].pc \in {"transcribe", "detect"}

\* a worker that lets the exception of an inference call end its thread
WorkerAfterInference_Dies(kind) == IF kind = "text" THEN "loop" ELSE "dead"

\* where the thread is after _transcribe_chunk returned a result or None:
\* "if result: put", task_done(), and the next iteration of the while loop
WorkerAfterInference(kind) == "loop"

\* while self.is_streaming
WorkerLoop(w) ==
    /\ wk[w].pc = "loop"
    /\ wk' = [wk EXCEPT ![w] = IF is_streaming THEN [@ EXCEPT !.pc = "get"] ELSE WkDead]
    /\ UNCHANGED <<streamVars, cb, main_pc, envVars, histVars, callVars, fileVars, winVars, unitVars>>

\* audio_chunk = self.audio_queue.get(timeout=0.01); queue.Empty: continue
WorkerGet(w) ==
    /\ wk[w].pc = "get"
    /\ IF audio_queue = <<>>
       THEN /\ wk' = [wk EXCEPT ![w].pc = "loop"]
            /\ UNCHANGED <<audio_queue, deq_count>>
       ELSE /\ audio_queue' = Tail(audio_queue)
            /\ deq_count' = deq_count + 1
            /\ wk' = [wk EXCEPT ![w] = [pc |-> "transcribe", chunk |-> Head(audio_queue),
                                        n |-> deq_count + 1]]
    /\ UNCHANGED <<is_streaming, result_queue, speech_buffer, silence_frames,
                   last_chunk_text, language, user_language, transcription_context,
                   full_transcription_text, processing_thread, stream_open,
                   cb, main_pc, envVars, frame_log, stop_buf, callVars, fileVars, winVars, unitVars>>

\* an inference call raises: _transcribe_chunk returns None, nothing is put,
\* and the loop goes on
InferenceRaises(w) ==
    /\ failed' = failed \cup {wk[w].n}
    /\ wk' = [wk EXCEPT ![w] = [WkDead EXCEPT !.pc = WorkerAfterInference("fail")]]
    /\ UNCHANGED <<language, last_chunk_text, result_queue, results_made>>

\* whisper.decode with self.language = lang, _handle_overlap, return chunk_result,
\* and self.result_queue.put(result); or an exception in decode
DecodeAndPut(w, lang, o) ==
    IF o.kind = "text"
    THEN /\ results_made < MaxResults
         /\ language' = lang
         /\ last_chunk_text' = NextLastChunkText(o.text, last_chunk_text)
         /\ result_queue' = Append(result_queue,
               [text |-> ReconciledText(o.text, last_chunk_text),
                language |-> lang, n |-> wk[w].n, seg |-> wk[w].chunk,
                decoded |-> o.text, last |-> last_chunk_text])
         /\ results_made' = results_made + 1
         /\ wk' = [wk EXCEPT ![w] = [WkDead EXCEPT !.pc = WorkerAfterInference("text")]]
         /\ UNCHANGED failed
    ELSE /\ language' = lang
         /\ failed' = failed \cup {wk[w].n}
         /\ wk' = [wk EXCEPT ![w] = [WkDead EXCEPT !.pc = WorkerAfterInference("fail")]]
         /\ UNCHANGED <<last_chunk_text, result_queue, results_made>>

\* result = self._transcribe_chunk(audio_chunk), up to "if self.language is
\* None": with the language known the chunk is decoded and the result put;
\* otherwise model.detect_language is called
WorkerTranscribe(w) ==
    /\ wk[w].pc = "transcribe"
    /\ IF NeedsDetection(language)
       THEN \E early \in BOOLEAN :
              IF early
              THEN InferenceRaises(w)
              ELSE /\ wk' = [wk EXCEPT ![w].pc = "detect"]
                   /\ UNCHANGED <<language, last_chunk_text, result_queue,
                                  results_made, failed>>
       ELSE \E o \in DecodeOutcomes : DecodeAndPut(w, language, o)
    /\ UNCHANGED <<is_streaming, audio_queue, speech_buffer, silence_frames,
                   user_language, transcription_context, full_transcription_text,
                   processing_thread, stream_open, cb, main_pc, captured, starts, cfg,
                   histVars, get_log, fileVars, winVars, unitVars>>

\* model.detect_language returns: self.language = max(probs, key=probs.get),
\* then the chunk is decoded with self.language and the result put
WorkerDetect(w) ==
    /\ wk[w].pc = "detect"
    /\ \E d \in DetectOutcomes :
         IF d = "raise"
         THEN InferenceRaises(w)
         ELSE \E o \in DecodeOutcomes : DecodeAndPut(w, d, o)
    /\ UNCHANGED <<is_streaming, audio_queue, speech_buffer, silence_frames,
                   user_language, transcription_context, full_transcription_text,
                   processing_thread, stream_open, cb, main_pc, captured, starts, cfg,
                   histVars, get_log, fileVars, winVars, unitVars>>

(***************************************************************************)
(* start_streaming, stop_streaming and get_transcription, run by the       *)
(* caller's thread.                                                        *)
(***************************************************************************)

DeadWorkers == {w \in Workers : wk[w].pc = "dead"}

\* an open output file
FileOpen == "open"

\* self.sf_file / self.text_file after the "if self.output_audio:" /
\* "if self.output_text:" blocks of start_streaming: opened, or None when the
\* open raised; left alone when the output is not configured
OpenedFile(file, configured, opened) ==
    IF configured THEN (IF opened THEN FileOpen ELSE None) ELSE file

\* a start_streaming that leaves the flag set when the stream cannot be opened
IsStreamingAfterStart_StaysSet(ok) == TRUE

\* self.is_streaming when start_streaming returns: set to True with the reset,
\* and put back to False by "except Exception" when the stream cannot be
\* created or started
IsStreamingAfterStart(ok) == ok

\* start_streaming: the state is reset and the queues are cleared; then the
\* capture stream is opened and started and the processing thread is started,
\* or an exception puts is_streaming back to False
StartStreaming ==
    /\ main_pc = "idle"
    /\ ~is_streaming
    /\ DeadWorkers # {}
    /\ starts < MaxStarts
    /\ starts' = starts + 1
    /\ transcription_context' = <<>>
    /\ last_chunk_text' = <<>>
    /\ language' = user_language
    /\ speech_buffer' = <<>>
    /\ silence_frames' = 0
    /\ audio_queue' = <<>>
    /\ result_queue' = <<>>
    /\ frame_log' = <<>>
    /\ get_log' = <<>>
    /\ audio_buffer' = <<>>
    /\ \E ok, created, sf_opened, text_opened \in BOOLEAN :
         /\ IF ok
            THEN LET w == CHOOSE x \in DeadWorkers : \A y \in DeadWorkers : x <= y
                 IN  /\ is_streaming' = IsStreamingAfterStart(ok)
                     /\ stream_open' = TRUE
                     /\ cb' = CbIdle
                     /\ wk' = [wk EXCEPT ![w].pc = "loop"]
                     /\ processing_thread' = w
            ELSE /\ is_streaming' = IsStreamingAfterStart(ok)
                 /\ UNCHANGED <<stream_open, cb, wk, processing_thread>>
         \* the files are opened once sd.InputStream(...) has returned, before
         \* self.stream.start()
         /\ IF ok \/ created
            THEN /\ sf_file' = OpenedFile(sf_file, cfg.output_audio, sf_opened)
                 /\ text_file' = OpenedFile(text_file, cfg.output_text, text_opened)
            ELSE UNCHANGED <<sf_file, text_file>>
    /\ UNCHANGED <<user_language, full_transcription_text, main_pc, captured,
                   results_made, cfg, deq_count, stop_buf, failed, win_log, unitVars>>

\* stop_streaming up to the flush of the final segment: is_streaming = False;
\* a non-empty speech_buffer is concatenated and put(block=False), a queue.Full
\* being caught by "except Exception"; finally the buffer is emptied
StopStreaming ==
    /\ main_pc = "idle"
    /\ is_streaming
    /\ is_streaming' = FALSE
    /\ stop_buf' = speech_buffer
    /\ audio_queue' = IF speech_buffer # <<>> THEN PutNowait(audio_queue, speech_buffer)
                      ELSE audio_queue
    /\ speech_buffer' = <<>>
    /\ main_pc' = "stop_stream"
    /\ UNCHANGED <<result_queue, silence_frames, last_chunk_text, language,
                   user_language, transcription_context, full_transcription_text,
                   processing_thread, stream_open, cb, wk, envVars, frame_log,
                   deq_count, callVars, fileVars, winVars, unitVars>>

\* self.stream.stop(); self.stream.close(): returns once no callback is running
StopStream ==
    /\ main_pc = "stop_stream"
    /\ cb.pc \in {"idle", "raised"}
    /\ stream_open' = FALSE
    /\ main_pc' = "stop_join"
    /\ UNCHANGED <<is_streaming, audio_queue, result_queue, speech_buffer,
                   silence_frames, last_chunk_text, language, user_language,
                   transcription_context, full_transcription_text, processing_thread,
                   cb, wk, envVars, histVars, callVars, fileVars, winVars, unitVars>>

\* self.processing_thread.join(timeout=2.0) returns when the thread has ended,
\* or after 2 s while the thread is still inside an inference call; then the
\* work queue is emptied, the recording and the text file are closed
\* (finally: self.sf_file = None, self.text_file = None) and stop_streaming
\* returns
StopJoin ==
    /\ main_pc = "stop_join"
    /\ processing_thread \in Workers =>
          (wk[processing_thread].pc = "dead" \/ InTranscribeChunk(processing_thread))
    /\ audio_queue' = <<>>
    /\ sf_file' = None
    /\ text_file' = None
    /\ main_pc' = "idle"
    /\ UNCHANGED <<is_streaming, result_queue, speech_buffer, silence_frames,
                   last_chunk_text, language, user_language, transcription_context,
                   full_transcription_text, processing_thread, stream_open,
                   cb, wk, envVars, histVars, callVars, winVars, unitVars>>

\* what a get_transcription call returned: None, or a text
ReturnedNone == <<>>

ReturnedText(text) == <<text>>

\* get_transcription with a result waiting in the result queue
GetTranscription ==
    /\ main_pc = "idle"
    /\ result_queue # <<>>
    /\ LET result == Head(result_queue)
       IN  /\ result_queue' = Tail(result_queue)
           /\ get_log' = Append(get_log,
                 [result |-> result,
                  ret |-> IF result.text # <<>> THEN ReturnedText(result.text)
                          ELSE ReturnedNone])
           /\ IF result.text # <<>>
              THEN /\ transcription_context' =
                         LastN(Append(transcription_context, result), ContextLimit)
                   /\ full_transcription_text' =
                         full_transcription_text \o result.text \o <<" ">>
              ELSE UNCHANGED <<transcription_context, full_transcription_text>>
    /\ UNCHANGED <<is_streaming, audio_queue, speech_buffer, silence_frames,
                   last_chunk_text, language, user_language, processing_thread,
                   stream_open, threadVars, envVars, histVars, failed, fileVars, winVars, unitVars>>

\* get_full_transcription(with_timestamps=False):
\* " ".join([r.get("text", "") for r in self.transcription_context if r.get("text")])
GetFullTranscription ==
    LET with_text == SelectSeq(transcription_context, LAMBDA r : r.text # <<>>)
    IN  JoinWords([i \in DOMAIN with_text |-> with_text[i].text])

(***************************************************************************)
(* StreamWhisper._handle_overlap called on its own, on decoded texts.      *)
(***************************************************************************)

\* longest decoded text made of OverlapChars
MaxTextLen == 3

OverlapChars == {"a", "b", " "}

WordThe == <<"t", "h", "e">>

WordCat == <<"c", "a", "t">>

WordSat == <<"s", "a", "t">>

WordOn == <<"o", "n">>

WordMat == <<"m", "a", "t">>

TheCatSat == JoinWords(<<WordThe, WordCat, WordSat>>)

OnTheMat == JoinWords(<<WordOn, WordThe, WordMat>>)

TheCatSatOnTheMat == JoinWords(<<TheCatSat, OnTheMat>>)

\* the texts result.text can be
OverlapTexts ==
    UNION {[1..k -> OverlapChars] : k \in 0..MaxTextLen}
        \cup {TheCatSat, TheCatSatOnTheMat, OnTheMat}

\* chunk_result = self._handle_overlap({"text": text, ...})
HandleOverlap(text) ==
    /\ ov' = [text_in  |-> text,
              last_in  |-> last_chunk_text,
              text_out |-> ReconciledText(text, last_chunk_text),
              called   |-> TRUE]
    /\ last_chunk_text' = NextLastChunkText(text, last_chunk_text)
    /\ UNCHANGED <<is_streaming, audio_queue, result_queue, speech_buffer,
                   silence_frames, language, user_language, transcription_context,
                   full_transcription_text, processing_thread, stream_open,
                   threadVars, envVars, histVars, callVars,
                   fileVars, winVars, eng, eng_call, eng_log>>

(***************************************************************************)
(* RealTimeTranscriber (src/transcription_engine.py): text cleaning,       *)
(* word-level overlap removal, the bounded context and the sentence        *)
(* assembler of _process_text_result.                                      *)
(***************************************************************************)

\* _process_text_result calls in one run
MaxEngineCalls == 3

\* self.min_sentence_length
min_sentence_length == 3

\* self.overlap_threshold = 0.7, in tenths
overlap_threshold_tenths == 7

\* max_context_words of the constructor, by default
DefaultMaxContextWords == 100

\* previous_context = self.transcription_context[-5:]
OverlapContextEntries == 5

\* keep_words = min(5, len(words))
KeepWords == 5

\* the characters U+3002, U+FF01 and U+FF1F
IdeographicFullStop == "U+3002"

FullwidthExclamation == "U+FF01"

FullwidthQuestion == "U+FF1F"

LatinTerminals == {".", "!", "?"}

CjkTerminals == {IdeographicFullStop, FullwidthExclamation, FullwidthQuestion}

\* re.sub(r'\s+', ' ', text)
RECURSIVE CollapseWhitespace(_)
CollapseWhitespace(s) ==
    IF s = <<>> THEN <<>>
    ELSE IF Head(s) \in WhitespaceChars
         THEN <<" ">> \o CollapseWhitespace(LStrip(s))
         ELSE <<Head(s)>> \o CollapseWhitespace(Tail(s))

\* the index of the first occurrence of c in s after position i, or 0
FirstAfter(s, c, i) ==
    IF \E j \in (i + 1)..Len(s) : s[j] = c
    THEN CHOOSE j \in (i + 1)..Len(s) :
             s[j] = c /\ \A k \in (i + 1)..(j - 1) : s[k] # c
    ELSE 0

\* re.sub of open + '.*?' + close by '': every leftmost shortest span from an
\* opening to the next closing character is removed
RECURSIVE RemoveSpans(_, _, _)
RemoveSpans(s, open, close) ==
    IF s = <<>> THEN <<>>
    ELSE IF Head(s) = open /\ FirstAfter(s, close, 1) # 0
         THEN RemoveSpans(DropFirst(s, FirstAfter(s, close, 1)), open, close)
         ELSE <<Head(s)>> \o RemoveSpans(Tail(s), open, close)

\* the number of "." at the start of s
RECURSIVE LeadingDots(_)
LeadingDots(s) ==
    IF s # <<>> /\ Head(s) = "." THEN 1 + LeadingDots(Tail(s)) ELSE 0

\* re.sub(r'\.{2,}', '...', text)
RECURSIVE NormalizeDots(_)
NormalizeDots(s) ==
    IF s = <<>> THEN <<>>
    ELSE IF LeadingDots(s) >= 2
         THEN <<".", ".", ".">> \o NormalizeDots(DropFirst(s, LeadingDots(s)))
         ELSE <<Head(s)>> \o NormalizeDots(Tail(s))

\* a cleaning that leaves the annotations in the text
RemoveArtifacts_None(s) == s

\* the three artifact patterns, applied in the order of the list
RemoveArtifacts(s) ==
    RemoveSpans(RemoveSpans(RemoveSpans(s, "[", "]"), "(", ")"), "<", ">")

\* RealTimeTranscriber._clean_text
CleanText(text) ==
    IF text = <<>> THEN <<>>
    ELSE Strip(NormalizeDots(RemoveArtifacts(Strip(CollapseWhitespace(text)))))

\* the characters of self.sentence_end_patterns.get(language, default)
TerminalChars(lang) ==
    IF lang \in {"en", "ko"} THEN LatinTerminals
    ELSE IF lang \in {"zh", "ja"} THEN CjkTerminals
    ELSE LatinTerminals \cup CjkTerminals

\* the least whitespace the pattern wants after the punctuation: \s+ or \s*
MinTrailingWhitespace(lang) == IF lang \in {"zh", "ja"} THEN 0 ELSE 1

\* re.search(pattern + '$', text)
SentenceEndMatch(text, lang) ==
    \E p \in 1..Len(text) :
        /\ text[p] \in TerminalChars(lang)
        /\ \A q \in (p + 1)..Len(text) : text[q] \in WhitespaceChars
        /\ Len(text) - p >= MinTrailingWhitespace(lang)

\* RealTimeTranscriber._is_complete_sentence
IsCompleteSentence(text, lang) ==
    /\ text # <<>>
    /\ Len(Split(text)) >= min_sentence_length
    /\ \/ SentenceEndMatch(text, lang)
       \/ (lang = "zh" /\ Last(text) \in CjkTerminals)

\* " ".join(ctx["text"] for ctx in previous_context if ctx["text"])
ContextText(context) == JoinWords([i \in 1..Len(context) |-> context[i].text])

\* the loop of _handle_overlap: the leading words of current_words equal to
\* the words of previous_words from position -max_overlap on
RECURSIVE OverlapCount(_, _, _)
OverlapCount(current_words, previous_words, i) ==
    LET max_overlap == Min(Len(current_words), Len(previous_words))
    IN  IF i < max_overlap
           /\ current_words[i + 1] = previous_words[Len(previous_words) - max_overlap + i + 1]
        THEN OverlapCount(current_words, previous_words, i + 1)
        ELSE i

\* find_overlap(text1, text2)[0]: the longest i <= max_overlap with
\* words1[-i:] == words2[:i], 0 if there is none
FindOverlap(words1, words2) ==
    LET max_overlap == Min(Len(words1), Len(words2))
        matching == {i \in 1..max_overlap :
                        SubSeq(words1, Len(words1) - i + 1, Len(words1)) = SubSeq(words2, 1, i)}
    IN  IF matching = {} THEN 0
        ELSE CHOOSE i \in matching : \A j \in matching : j <= i

\* RealTimeTranscriber._handle_overlap with previous_context = None:
\* the pair (is_new_text, new_text)
EngineHandleOverlap(current_text, context) ==
    LET previous_text  == ContextText(LastN(context, OverlapContextEntries))
        current_words  == Split(current_text)
        previous_words == Split(previous_text)
        overlap_count  == OverlapCount(current_words, previous_words, 0)
    IN  IF current_text = <<>> THEN <<FALSE, <<>>>>
        ELSE IF previous_text = <<>> THEN <<TRUE, current_text>>
        ELSE IF current_words = <<>> THEN <<FALSE, <<>>>>
        ELSE IF 10 * overlap_count > overlap_threshold_tenths * Len(current_words)
             THEN <<FALSE, <<>>>>
        ELSE IF overlap_count > 0
             THEN <<TRUE, JoinWords(DropFirst(current_words, overlap_count))>>
        ELSE <<TRUE, current_text>>

RECURSIVE TotalWords(_)
TotalWords(context) ==
    IF context = <<>> THEN 0 ELSE context[1].word_count + TotalWords(Tail(context))

\* a trim that removes at most one entry
TrimContext_Once(context, max_words) ==
    IF TotalWords(context) > max_words /\ context # <<>> THEN Tail(context) ELSE context

\* while total_words > self.max_context_words and self.transcription_context
RECURSIVE TrimContext(_, _)
TrimContext(context, max_words) ==
    IF TotalWords(context) > max_words /\ context # <<>>
    THEN TrimContext(Tail(context), max_words)
    ELSE context

\* context_entry: the text, time.time() (the time of the nth call is n), and
\* the number of words
ContextEntry(text, now) == [text |-> text, timestamp |-> now, word_count |-> Len(Split(text))]

\* RealTimeTranscriber._update_context: the transcriber's fields afterwards
UpdateContext(e, text, now) ==
    IF text = <<>> THEN e
    ELSE LET words == Split(text)
             entry == ContextEntry(text, now)
         IN  [e EXCEPT
                !.transcription_context =
                    TrimContext(Append(e.transcription_context, entry), e.max_context_words),
                !.last_words = IF words # <<>> THEN LastN(words, KeepWords) ELSE @,
                !.last_text  = IF words # <<>> THEN JoinWords(LastN(words, KeepWords)) ELSE @]

\* the state after RealTimeTranscriber.__init__(language, max_context_words)
\* (constructed_language is a history field: the language argument of
\* __init__, which no method changes)
EngineInit(lang, max_words) ==
    [language |-> lang, max_context_words |-> max_words,
     transcription_context |-> <<>>, partial_results |-> <<>>,
     last_text |-> <<>>, last_words |-> <<>>,
     chunks_processed |-> 0, words_processed |-> 0,
     constructed_language |-> lang]

\* no call of _process_text_result made yet
NoCall ==
    [n |-> 0, text |-> <<>>, cleaned_text |-> <<>>, new_text |-> <<>>,
     final_text |-> <<>>, is_new |-> FALSE, is_complete_sentence |-> FALSE,
     partials_before |-> <<>>, partial_results |-> <<>>]

\* RealTimeTranscriber._process_text_result(text) called as call number n on a
\* transcriber with the fields e: the record of the call, the fields afterwards
\* and the entry appended to the context, if any
TextResult(e, text, n) ==
    LET cleaned_text == CleanText(text)
        overlap      == EngineHandleOverlap(cleaned_text, e.transcription_context)
        is_new       == overlap[1]
        new_text     == overlap[2]
        updated      == UpdateContext(e, new_text, n)
        complete     == IsCompleteSentence(new_text, e.language)
        pending      == Append(e.partial_results, new_text)
        combined     == JoinWords(pending)
        emits_alone  == is_new /\ new_text # <<>> /\ complete
        emits_joined == is_new /\ new_text # <<>> /\ ~complete
                          /\ IsCompleteSentence(combined, e.language)
        final_text   == IF emits_alone THEN new_text
                        ELSE IF emits_joined THEN combined
                        ELSE <<>>
        partials     == IF emits_alone \/ emits_joined THEN <<>>
                        ELSE IF is_new /\ new_text # <<>> THEN pending
                        ELSE e.partial_results
    IN  IF cleaned_text = <<>>
        THEN [call |-> [NoCall EXCEPT !.n = n, !.text = text,
                                      !.partials_before = e.partial_results,
                                      !.partial_results = e.partial_results],
              eng |-> e,
              appended |-> <<>>]
        ELSE [call |-> [n |-> n,
                        text |-> text,
                        cleaned_text |-> cleaned_text,
                        new_text |-> new_text,
                        final_text |-> final_text,
                        is_new |-> is_new,
                        is_complete_sentence |-> complete,
                        partials_before |-> e.partial_results,
                        partial_results |-> partials],
              eng |-> [updated EXCEPT !.partial_results = partials],
              appended |-> IF new_text = <<>> THEN <<>>
                           ELSE <<ContextEntry(new_text, n)>>]

\* RealTimeTranscriber._process_text_result(text)
ProcessTextResult(text) ==
    /\ eng_call.n < MaxEngineCalls
    /\ LET result == TextResult(eng, text, eng_call.n + 1)
       IN  /\ eng_call' = result.call
           /\ eng' = result.eng
           /\ eng_log' = eng_log \o result.appended
    /\ UNCHANGED <<streamVars, threadVars, envVars, histVars, callVars, fileVars, winVars, ov>>

\* the languages detect_language can return
DetectedLanguages == {"en", "zh"}

\* RealTimeTranscriber.process_audio_chunk with a model: the language is
\* detected and stored if it is None, the chunk is decoded to text, the text
\* goes through _process_text_result and the statistics are updated
ProcessAudioChunk(text, detected_language) ==
    /\ eng_call.n < MaxEngineCalls
    /\ LET detected == [eng EXCEPT !.language = IF @ = None THEN detected_language ELSE @]
           result   == TextResult(detected, text, eng_call.n + 1)
       IN  /\ eng_call' = result.call
           /\ eng' = [result.eng EXCEPT
                        !.chunks_processed = @ + 1,
                        !.words_processed = @ + Len(Split(result.call.final_text))]
           /\ eng_log' = eng_log \o result.appended
    /\ UNCHANGED <<streamVars, threadVars, envVars, histVars, callVars, fileVars, winVars, ov>>

\* RealTimeTranscriber.reset
Reset ==
    /\ eng' = [eng EXCEPT !.transcription_context = <<>>,
                          !.partial_results = <<>>,
                          !.last_text = <<>>,
                          !.last_words = <<>>,
                          !.chunks_processed = 0,
                          !.words_processed = 0,
                          !.language = None]
    /\ UNCHANGED <<streamVars, threadVars, envVars, histVars, callVars, fileVars, winVars,
                   ov, eng_call, eng_log>>

WordHello == <<"H", "e", "l", "l", "o">>

WordThere == <<"t", "h", "e", "r", "e">>

WordFriend == <<"f", "r", "i", "e", "n", "d">>

HelloThere == JoinWords(<<WordHello, WordThere>>)

FriendStop == WordFriend \o <<".">>

HelloThereFriendStop == JoinWords(<<HelloThere, FriendStop>>)

\* three words closed by an ideographic full stop
ThreeWordsCjkStop == JoinWords(<<<<"n", "i">>, <<"h", "a", "o">>, <<"m", "a", IdeographicFullStop>>>>)

\* a non-speech annotation between two words, and one on its own
AnnotatedText == <<"a", " ", "[", "x", "]", " ", "b">>

AnnotationOnly == <<"[", "x", "]">>

\* the texts whisper.decode can hand to _process_text_result
EngineTexts ==
    {<<>>, HelloThere, FriendStop, HelloThereFriendStop, WordThere \o <<" ">> \o FriendStop,
     HelloThereFriendStop \o <<" ">>, ThreeWordsCjkStop, <<"m", "a", IdeographicFullStop>>,
     AnnotatedText, AnnotationOnly, <<"a", ".", ".", ".", ".", "\t", " ", "b">>}

\* constructor arguments of the transcriber
EngineLanguages == {None, "en", "zh"}

EngineMaxContextWords == {3, DefaultMaxContextWords}

(***************************************************************************)
(* Specifications.                                                         *)
(***************************************************************************)

\* Configurations of the pipeline runs: sample_rate 100 Hz (frames of one
\* sample), silence_duration_ms 10 (one frame), chunk_duration 0.01 s or 0.02 s
\* (one or two frames), capture blocks of one frame
PipelineConfigs ==
    [samples_per_frame : {1}, silence_duration_ms : {10},
     max_duration_samples : {1, 2}, max_block : {1}, frames : {MaxFrames},
     output_audio : {FALSE}, output_text : {FALSE}]

\* Configurations of the life-cycle runs: the same, with or without the
\* recording (output_audio) and the text file (output_text)
LifecycleConfigs ==
    [samples_per_frame : {1}, silence_duration_ms : {10},
     max_duration_samples : {1, 2}, max_block : {1}, frames : {MaxFrames},
     output_audio : BOOLEAN, output_text : BOOLEAN]

\* Configurations of the segmenter runs: sample_rate 200 Hz (frames of two
\* samples), silence_duration_ms 20 (two frames), chunk_duration 0.02 s to
\* 0.03 s, capture blocks of up to MaxBlock samples
SegmenterConfigs ==
    [samples_per_frame : {2}, silence_duration_ms : {20},
     max_duration_samples : {4, 5, 6}, max_block : {MaxBlock}, frames : {SegmenterFrames},
     output_audio : {FALSE}, output_text : {FALSE}]


\* the state after StreamWhisper.__init__ (language is None or the caller's)
StreamWhisperInit ==
    /\ is_streaming = FALSE
    /\ audio_queue = <<>>
    /\ result_queue = <<>>
    /\ speech_buffer = <<>>
    /\ silence_frames = 0
    /\ last_chunk_text = <<>>
    /\ user_language \in {None, "zh"}
    /\ language = user_language
    /\ transcription_context = <<>>
    /\ full_transcription_text = <<>>
    /\ processing_thread = NoThread
    /\ stream_open = FALSE
    /\ cb = CbIdle
    /\ wk = [w \in Workers |-> WkDead]
    /\ main_pc = "idle"
    /\ captured = 0
    /\ starts = 0
    /\ cfg \in PipelineConfigs
    /\ results_made = 0
    /\ frame_log = <<>>
    /\ deq_count = 0
    /\ stop_buf = <<>>
    /\ get_log = <<>>
    /\ failed = {}
    /\ sf_file = None
    /\ text_file = None
    /\ audio_buffer = <<>>
    /\ win_log = <<>>
    /\ ov = OvInit

\* a constructed StreamWhisper, and a RealTimeTranscriber constructed with the
\* default arguments
Init ==
    /\ StreamWhisperInit
    /\ eng = EngineInit(None, DefaultMaxContextWords)
    /\ eng_call = NoCall
    /\ eng_log = <<>>

Next ==
    \/ \E n \in 1..MaxBlock : AudioCallback(n)
    \/ VadFrame
    \/ VadSafetyCheck
    \/ VadEvict
    \/ VadReput
    \/ VadClear
    \/ \E w \in Workers : WorkerLoop(w)
    \/ \E w \in Workers : WorkerGet(w)
    \/ \E w \in Workers : WorkerTranscribe(w)
    \/ \E w \in Workers : WorkerDetect(w)
    \/ StartStreaming
    \/ StopStreaming
    \/ StopStream
    \/ StopJoin
    \/ GetTranscription

Spec == Init /\ [][Next]_vars

\* The segmenter alone: the state after a successful start_streaming, and only
\* the capture callback running
InitSeg ==
    /\ is_streaming = TRUE
    /\ audio_queue = <<>>
    /\ result_queue = <<>>
    /\ speech_buffer = <<>>
    /\ silence_frames = 0
    /\ last_chunk_text = <<>>
    /\ user_language = None
    /\ language = user_language
    /\ transcription_context = <<>>
    /\ full_transcription_text = <<>>
    /\ processing_thread = 1
    /\ stream_open = TRUE
    /\ cb = CbIdle
    /\ wk = [w \in Workers |-> IF w = 1 THEN [WkDead EXCEPT !.pc = "loop"] ELSE WkDead]
    /\ main_pc = "idle"
    /\ captured = 0
    /\ starts = 1
    /\ cfg \in SegmenterConfigs
    /\ results_made = 0
    /\ frame_log = <<>>
    /\ deq_count = 0
    /\ stop_buf = <<>>
    /\ get_log = <<>>
    /\ failed = {}
    /\ sf_file = None
    /\ text_file = None
    /\ audio_buffer = <<>>
    /\ win_log = <<>>
    /\ ov = OvInit
    /\ eng = EngineInit(None, DefaultMaxContextWords)
    /\ eng_call = NoCall
    /\ eng_log = <<>>

NextSeg ==
    \/ \E n \in 1..MaxBlock : AudioCallback(n)
    \/ VadFrame
    \/ VadSafetyCheck
    \/ VadEvict
    \/ VadReput
    \/ VadClear

SpecSeg == InitSeg /\ [][NextSeg]_vars

\* Configurations of the fixed-window runs: chunks of 4 samples, an overlap
\* of 0, 1 or 4 samples (chunk_duration = overlap is what chunk_duration=0.5
\* gives with the default overlap), a minimum chunk of 2, 4 or 5 samples,
\* capture blocks of up to MaxBlock samples.  All sizes of chunks are positive.
WindowConfigs ==
    [samples_per_frame : {2}, frames : {SegmenterFrames}, max_block : {MaxBlock},
     samples_per_chunk : {4}, samples_overlap : {0, 1, 4},
     samples_per_min_chunk : {2, 4, 5},
     output_audio : {FALSE}, output_text : {FALSE}]

\* The fixed-window chunker alone: the state after a successful
\* start_streaming of a StreamWhisper without VAD, and only the capture
\* callback running
InitWindow ==
    /\ is_streaming = TRUE
    /\ audio_queue = <<>>
    /\ result_queue = <<>>
    /\ speech_buffer = <<>>
    /\ silence_frames = 0
    /\ last_chunk_text = <<>>
    /\ user_language = None
    /\ language = user_language
    /\ transcription_context = <<>>
    /\ full_transcription_text = <<>>
    /\ processing_thread = 1
    /\ stream_open = TRUE
    /\ cb = CbIdle
    /\ wk = [w \in Workers |-> IF w = 1 THEN [WkDead EXCEPT !.pc = "loop"] ELSE WkDead]
    /\ main_pc = "idle"
    /\ captured = 0
    /\ starts = 1
    /\ cfg \in WindowConfigs
    /\ results_made = 0
    /\ frame_log = <<>>
    /\ deq_count = 0
    /\ stop_buf = <<>>
    /\ get_log = <<>>
    /\ failed = {}
    /\ sf_file = None
    /\ text_file = None
    /\ audio_buffer = <<>>
    /\ win_log = <<>>
    /\ ov = OvInit
    /\ eng = EngineInit(None, DefaultMaxContextWords)
    /\ eng_call = NoCall
    /\ eng_log = <<>>

NextWindow ==
    \/ \E n \in 1..MaxBlock : ChunkCallback(n)
    \/ ChunkEvict
    \/ ChunkReput

SpecWindow == InitWindow /\ [][NextWindow]_vars

\* Configurations of the fixed-window runs with a consumer: chunks of 2
\* samples, an overlap of 0 or 1 sample, a minimum chunk of 1 or 2 samples,
\* capture blocks of 1 or 2 samples
WindowSessionConfigs ==
    [samples_per_frame : {2}, frames : {MaxFrames}, max_block : {2},
     samples_per_chunk : {2}, samples_overlap : {0, 1},
     samples_per_min_chunk : {1, 2},
     output_audio : {FALSE}, output_text : {FALSE}]

\* One session of a StreamWhisper without VAD and with the caller's language:
\* the capture callback and the processing thread
InitWindowSession ==
    /\ is_streaming = TRUE
    /\ audio_queue = <<>>
    /\ result_queue = <<>>
    /\ speech_buffer = <<>>
    /\ silence_frames = 0
    /\ last_chunk_text = <<>>
    /\ user_language = "zh"
    /\ language = user_language
    /\ transcription_context = <<>>
    /\ full_transcription_text = <<>>
    /\ processing_thread = 1
    /\ stream_open = TRUE
    /\ cb = CbIdle
    /\ wk = [w \in Workers |-> IF w = 1 THEN [WkDead EXCEPT !.pc = "loop"] ELSE WkDead]
    /\ main_pc = "idle"
    /\ captured = 0
    /\ starts = 1
    /\ cfg \in WindowSessionConfigs
    /\ results_made = 0
    /\ frame_log = <<>>
    /\ deq_count = 0
    /\ stop_buf = <<>>
    /\ get_log = <<>>
    /\ failed = {}
    /\ sf_file = None
    /\ text_file = None
    /\ audio_buffer = <<>>
    /\ win_log = <<>>
    /\ ov = OvInit
    /\ eng = EngineInit(None, DefaultMaxContextWords)
    /\ eng_call = NoCall
    /\ eng_log = <<>>

NextWindowSession ==
    \/ \E n \in 1..MaxBlock : ChunkCallback(n)
    \/ ChunkEvict
    \/ ChunkReput
    \/ \E w \in Workers : WorkerLoop(w)
    \/ \E w \in Workers : WorkerGet(w)
    \/ \E w \in Workers : WorkerTranscribe(w)

SpecWindowSession == InitWindowSession /\ [][NextWindowSession]_vars

\* a constructed StreamWhisper, with or without output_audio and output_text
InitLifecycle ==
    /\ is_streaming = FALSE
    /\ audio_queue = <<>>
    /\ result_queue = <<>>
    /\ speech_buffer = <<>>
    /\ silence_frames = 0
    /\ last_chunk_text = <<>>
    /\ user_language = None
    /\ language = user_language
    /\ transcription_context = <<>>
    /\ full_transcription_text = <<>>
    /\ processing_thread = NoThread
    /\ stream_open = FALSE
    /\ cb = CbIdle
    /\ wk = [w \in Workers |-> WkDead]
    /\ main_pc = "idle"
    /\ captured = 0
    /\ starts = 0
    /\ cfg \in LifecycleConfigs
    /\ results_made = 0
    /\ frame_log = <<>>
    /\ deq_count = 0
    /\ stop_buf = <<>>
    /\ get_log = <<>>
    /\ failed = {}
    /\ sf_file = None
    /\ text_file = None
    /\ audio_buffer = <<>>
    /\ win_log = <<>>
    /\ ov = OvInit
    /\ eng = EngineInit(None, DefaultMaxContextWords)
    /\ eng_call = NoCall
    /\ eng_log = <<>>

\* The life cycle alone: start_streaming, capture, the worker's loop up to the
\* dequeue of a segment, and stop_streaming, over runs in which no inference
\* call has returned yet and get_transcription is not called
NextLifecycle ==
    \/ \E n \in 1..MaxBlock : AudioCallback(n)
    \/ VadFrame
    \/ VadSafetyCheck
    \/ VadEvict
    \/ VadReput
    \/ VadClear
    \/ \E w \in Workers : WorkerLoop(w)
    \/ \E w \in Workers : WorkerGet(w)
    \/ StartStreaming
    \/ StopStreaming
    \/ StopStream
    \/ StopJoin

SpecLifecycle == InitLifecycle /\ [][NextLifecycle]_vars

\* One session: the state after a successful start_streaming, with the capture
\* callback, the processing thread and the caller (stop_streaming,
\* get_transcription) running, and no second start_streaming
InitSession ==
    /\ is_streaming = TRUE
    /\ audio_queue = <<>>
    /\ result_queue = <<>>
    /\ speech_buffer = <<>>
    /\ silence_frames = 0
    /\ last_chunk_text = <<>>
    /\ user_language \in {None, "zh"}
    /\ language = user_language
    /\ transcription_context = <<>>
    /\ full_transcription_text = <<>>
    /\ processing_thread = 1
    /\ stream_open = TRUE
    /\ cb = CbIdle
    /\ wk = [w \in Workers |-> IF w = 1 THEN [WkDead EXCEPT !.pc = "loop"] ELSE WkDead]
    /\ main_pc = "idle"
    /\ captured = 0
    /\ starts = 1
    /\ cfg \in PipelineConfigs
    /\ results_made = 0
    /\ frame_log = <<>>
    /\ deq_count = 0
    /\ stop_buf = <<>>
    /\ get_log = <<>>
    /\ failed = {}
    /\ sf_file = None
    /\ text_file = None
    /\ audio_buffer = <<>>
    /\ win_log = <<>>
    /\ ov = OvInit
    /\ eng = EngineInit(None, DefaultMaxContextWords)
    /\ eng_call = NoCall
    /\ eng_log = <<>>

NextSession ==
    \/ \E n \in 1..MaxBlock : AudioCallback(n)
    \/ VadFrame
    \/ VadSafetyCheck
    \/ VadEvict
    \/ VadReput
    \/ VadClear
    \/ \E w \in Workers : WorkerLoop(w)
    \/ \E w \in Workers : WorkerGet(w)
    \/ \E w \in Workers : WorkerTranscribe(w)
    \/ \E w \in Workers : WorkerDetect(w)
    \/ StopStreaming
    \/ StopStream
    \/ StopJoin
    \/ GetTranscription

SpecSession == InitSession /\ [][NextSession]_vars

\* results put on the result queue in one run of the consumer
MaxFed == 51

\* self.result_queue.put(result): a result with the text "a" arrives from the
\* processing thread
ResultArrives ==
    /\ results_made < MaxFed
    /\ results_made' = results_made + 1
    /\ result_queue' = Append(result_queue,
          [text |-> <<"a">>, language |-> IF language = None THEN "en" ELSE language,
           n |-> results_made + 1, seg |-> <<>>, decoded |-> <<"a">>, last |-> <<>>])
    /\ UNCHANGED <<is_streaming, audio_queue, speech_buffer, silence_frames,
                   last_chunk_text, language, user_language, transcription_context,
                   full_transcription_text, processing_thread, stream_open,
                   threadVars, captured, starts, cfg, histVars, callVars, fileVars, winVars, unitVars>>

\* The consumer alone: in one session, results arrive on the result queue and
\* get_transcription takes them
NextGet ==
    \/ ResultArrives
    \/ GetTranscription

SpecGet == InitSession /\ [][NextGet]_vars

\* _handle_overlap alone: a constructed StreamWhisper, and the method called
\* on one decoded text after another
InitOverlap ==
    /\ Init
    /\ user_language = None

NextOverlap == \E text \in OverlapTexts : HandleOverlap(text)

SpecOverlap == InitOverlap /\ [][NextOverlap]_vars

\* the transcriber alone: RealTimeTranscriber(language, max_context_words)
\* constructed, and _process_text_result called on one text after another
InitEngine ==
    /\ StreamWhisperInit
    /\ user_language = None
    /\ cfg.max_duration_samples = 1
    /\ eng_call = NoCall
    /\ eng_log = <<>>
    /\ \E lang \in EngineLanguages : \E max_words \in EngineMaxContextWords :
          eng = EngineInit(lang, max_words)

NextEngine == \E text \in EngineTexts : ProcessTextResult(text)

SpecEngine == InitEngine /\ [][NextEngine]_vars

\* a transcriber fed with audio chunks and reset at any time
NextEngineReset ==
    \/ \E text \in EngineTexts : \E detected_language \in DetectedLanguages :
          ProcessAudioChunk(text, detected_language)
    \/ Reset

SpecEngineReset == InitEngine /\ [][NextEngineReset]_vars

(***************************************************************************)
(* Properties of the pipeline (specifications Spec and SpecSession).       *)
(***************************************************************************)

\* the results that get_transcription calls have taken from the result queue
Taken(log) == [i \in DOMAIN log |-> log[i].result]

\* the results produced so far that the consumer has or can still get
ResultsOf(taken, queue) == taken \o queue

CountFor(results, seg) == Cardinality({i \in DOMAIN results : results[i].seg = seg})

\* C1: flush-on-stop.  When stop_streaming returns and speech was buffered at
\* the time it was called, exactly one result made from exactly those buffered
\* samples has reached the result queue.
C1_FlushOnStop ==
    [][(main_pc = "stop_join" /\ main_pc' = "idle" /\ stop_buf # <<>>)
          => CountFor(ResultsOf(Taken(get_log'), result_queue'), stop_buf) = 1]_vars

\* C2: bounded queue eviction.  When the callback found the queue full, the
\* segment it evicts is the oldest one pending, and when it leaves the eviction
\* path the new segment is the newest entry of the queue.
C2_EvictOldestAdmitNewest ==
    [][/\ (cb.pc = "evict" /\ cb'.pc # "evict")
             => (audio_queue # <<>> /\ audio_queue' = Tail(audio_queue))
       /\ (cb.pc \in {"evict", "reput"} /\ cb'.pc \notin {"evict", "reput"})
             => (audio_queue' # <<>> /\ Last(audio_queue') = cb.chunk)]_vars

\* C3: ordering.  The results retrieved and retrievable are in the order in
\* which their segments were dequeued from the work queue.
C3_ResultsInDequeueOrder ==
    LET rs == ResultsOf(Taken(get_log), result_queue)
    IN  \A i, j \in DOMAIN rs : i < j => rs[i].n < rs[j].n

\* C4: serial inference.  At most one thread is inside _transcribe_chunk.
C4_SerialInference ==
    Cardinality({w \in Workers : InTranscribeChunk(w)}) <= 1

\* C5: no exception leaves the capture callback.
C5_CallbackNeverRaises == cb.pc # "raised"

\* every frame classified so far in this session was silence (or the classifier failed)
AllSilence == \A i \in DOMAIN frame_log : ~frame_log[i].is_speech

\* a segment is on its way from the callback into the work queue
CallbackEnqueuing == cb.pc \in {"evict", "reput", "clear"}

\* C7: segmentation of silence.  While every frame of the session has been
\* classified as silence, nothing is buffered, no segment is or has been put
\* on the work queue, and a stop_streaming in that session flushes nothing.
C7_SilenceEmitsNothing ==
    AllSilence => (speech_buffer = <<>> /\ audio_queue = <<>> /\ ~CallbackEnqueuing)

\* a session of silent frames only, heard and then stopped
C7_Witness ==
    /\ AllSilence
    /\ Len(frame_log) >= 2
    /\ starts >= 1
    /\ ~is_streaming
    /\ main_pc = "idle"
    /\ audio_queue = <<>>

(***************************************************************************)
(* Properties of the segmenter (specification SpecSeg).                    *)
(***************************************************************************)

\* the samples of the frames a+1 .. a+k of the session
RECURSIVE FramesOf(_, _, _)
FramesOf(log, a, k) ==
    IF k = 0 THEN <<>> ELSE FramesOf(log, a, k - 1) \o log[a + k].frame

\* the session so far is a silent frames, then k speech frames, then silence
SilenceSpeechSilence(a, k) ==
    /\ a + k <= Len(frame_log)
    /\ \A i \in 1..Len(frame_log) : frame_log[i].is_speech <=> (a < i /\ i <= a + k)

\* the segments on the work queue and the one the callback is still enqueuing
SegmentsInFlight ==
    {audio_queue[i] : i \in DOMAIN audio_queue}
        \cup (IF CallbackEnqueuing THEN {cb.chunk} ELSE {})

\* C6 as stated: no segment is longer than max_chunk_duration.
C6_NoSegmentLongerThanCap ==
    \A seg \in SegmentsInFlight : Len(seg) <= cfg.max_duration_samples

\* C6 as amended: the cap is applied once per callback invocation, after its
\* frames: between invocations the buffered speech is shorter than
\* max_chunk_duration, and a segment is shorter than max_chunk_duration plus
\* the audio of one invocation.
C6_CapPerCallback ==
    /\ cb.pc = "idle" => Len(speech_buffer) < cfg.max_duration_samples
    /\ \A seg \in SegmentsInFlight : Len(seg) < cfg.max_duration_samples + cfg.max_block

\* speech without any silence, force-emitted at the cap
C6_Witness ==
    /\ frame_log # <<>>
    /\ \A i \in DOMAIN frame_log : frame_log[i].is_speech
    /\ cb.forced
    /\ cb.pc = "clear"
    /\ Len(cb.chunk) >= cfg.max_duration_samples
    /\ Last(audio_queue) = cb.chunk

\* C8: end-to-end segmentation.  After leading silence, a run of speech shorter
\* than max_chunk_duration and then silence: until the silence has lasted
\* silence_duration_ms nothing is emitted and the run is buffered; from the
\* frame that completes silence_duration_ms on, exactly one segment has been
\* emitted, made of the samples of the speech frames in order.
C8_EndToEnd ==
    \A a \in 1..Len(frame_log) : \A k \in 1..Len(frame_log) :
        (SilenceSpeechSilence(a, k)
            /\ k * cfg.samples_per_frame < cfg.max_duration_samples)
        => LET m   == Len(frame_log) - a - k
               run == FramesOf(frame_log, a, k)
           IN  IF m * frame_duration_ms >= cfg.silence_duration_ms
               THEN /\ audio_queue = <<run>>
                    /\ cb.pc \notin {"evict", "reput"}
                    /\ speech_buffer = IF cb.pc = "clear" THEN run ELSE <<>>
               ELSE /\ audio_queue = <<>>
                    /\ ~CallbackEnqueuing
                    /\ speech_buffer = run

\* silence, two speech frames, and silence that went on after the emission
C8_Witness ==
    \E a \in 1..Len(frame_log) :
        /\ SilenceSpeechSilence(a, 2)
        /\ (Len(frame_log) - a - 2 - 1) * frame_duration_ms >= cfg.silence_duration_ms
        /\ audio_queue = <<FramesOf(frame_log, a, 2)>>
        /\ cb.pc = "idle"

(***************************************************************************)
(* Properties of the overlap reconciler (specification SpecOverlap).       *)
(***************************************************************************)

\* s has no leading and no trailing whitespace
IsTrimmed(s) == s = <<>> \/ (Head(s) \notin WhitespaceChars /\ Last(s) \notin WhitespaceChars)

\* out is what is left of r after its leading whitespace
AfterLeadingWhitespace(r, out) ==
    \E i \in 0..Len(r) :
        /\ \A j \in 1..i : r[j] \in WhitespaceChars
        /\ out = DropFirst(r, i)

\* out is the trimmed remainder of the trimmed text t after the prefix last
TrimmedRemainder(t, last, out) ==
    /\ IsTrimmed(out)
    /\ AfterLeadingWhitespace(DropFirst(t, Len(last)), out)

\* C10 as stated: when the trimmed text starts with last_trailing_words the
\* reconciled text is the trimmed remainder after that prefix, and when it
\* does not, the reconciled text is the trimmed text unchanged.
C10_TrimmedTextUnchanged ==
    ov.called =>
        LET t == Strip(ov.text_in)
        IN  IF StartsWith(t, ov.last_in)
            THEN TrimmedRemainder(t, ov.last_in, ov.text_out)
            ELSE ov.text_out = t

\* C10 as amended: when last_trailing_words is non-empty and the trimmed text
\* starts with it, the reconciled text is the trimmed remainder after that
\* prefix; otherwise the text is left exactly as it arrived, not trimmed,
\* except that a text that is empty once trimmed becomes the empty text.
C10_Reconciliation ==
    ov.called =>
        LET t == Strip(ov.text_in)
        IN  IF t = <<>> THEN ov.text_out = <<>>
            ELSE IF ov.last_in # <<>> /\ StartsWith(t, ov.last_in)
                 THEN TrimmedRemainder(t, ov.last_in, ov.text_out)
                 ELSE ov.text_out = ov.text_in

\* "the cat sat" followed by "the cat sat on the mat" gave "on the mat"
C10_Witness ==
    /\ ov.called
    /\ ov.last_in = TheCatSat
    /\ ov.text_in = TheCatSatOnTheMat
    /\ ov.text_out = OnTheMat

\* the final TrailingWords words of a text, or the whole text if it has no more
FinalWords(t) ==
    IF Len(Split(t)) > TrailingWords THEN JoinWords(LastN(Split(t), TrailingWords)) ELSE t

\* C25: trailing-word maintenance.  After _handle_overlap has processed a
\* chunk and left it a non-empty reconciled text, last_chunk_text is the final
\* 3 words of that reconciled text, or all of it if it has 3 words or fewer.
C25_TrailingWords ==
    (ov.called /\ ov.text_out # <<>>) => last_chunk_text = FinalWords(Strip(ov.text_out))

(***************************************************************************)
(* Properties of the transcriber (specification SpecEngine).               *)
(***************************************************************************)

\* the text ends with a sentence-terminal punctuation mark of the language
EndsWithTerminal(text, lang) == text # <<>> /\ Last(text) \in TerminalChars(lang)

\* the text is a sentence of its own: enough words, and closed by punctuation
SentenceOnItsOwn(text, lang) ==
    Len(Split(text)) >= min_sentence_length /\ EndsWithTerminal(text, lang)

\* C9: sentence finalization.  For a new fragment that is not a sentence of
\* its own, fed while no pending fragment has terminal punctuation: if it does
\* not bring terminal punctuation, final_text is empty; if it brings the
\* terminal punctuation that closes the pending fragments into a sentence,
\* final_text is the pending fragments and this one joined by spaces, and the
\* pending-partials list is empty afterwards.
C9_SentenceFinalization ==
    (eng_call.n > 0 /\ eng_call.is_new /\ eng_call.new_text # <<>>
        /\ ~SentenceOnItsOwn(eng_call.new_text, eng.language)
        /\ \A i \in DOMAIN eng_call.partials_before :
              ~EndsWithTerminal(eng_call.partials_before[i], eng.language))
    => LET combined == JoinWords(Append(eng_call.partials_before, eng_call.new_text))
       IN  /\ ~EndsWithTerminal(eng_call.new_text, eng.language)
                => eng_call.final_text = <<>>
           /\ SentenceOnItsOwn(combined, eng.language)
                => (eng_call.final_text = combined /\ eng.partial_results = <<>>)

(***************************************************************************)
(* Properties of full redundancy (specification SpecSession).              *)
(***************************************************************************)

\* the result was made from a chunk whose trimmed text is exactly the
\* last_chunk_text of the moment
FullyRedundant(r) == Strip(r.decoded) = r.last

\* C11: full redundancy.  A chunk whose trimmed text is exactly equal to
\* last_chunk_text gets the empty reconciled text; get_transcription, when it
\* takes that result, returns None; and no entry of the transcription context
\* comes from such a chunk.
C11_FullRedundancy ==
    /\ \A i \in DOMAIN result_queue :
          FullyRedundant(result_queue[i]) => result_queue[i].text = <<>>
    /\ \A i \in DOMAIN get_log :
          FullyRedundant(get_log[i].result) => get_log[i].ret = ReturnedNone
    /\ \A i \in DOMAIN transcription_context :
          ~FullyRedundant(transcription_context[i])

\* get_transcription has taken the result of a chunk that repeated a non-empty
\* last_chunk_text, after having returned the fragment it repeats
C11_Witness ==
    \E i, j \in DOMAIN get_log :
        /\ i < j
        /\ get_log[i].ret # ReturnedNone
        /\ get_log[j].result.last # <<>>
        /\ FullyRedundant(get_log[j].result)
        /\ Len(transcription_context) = 1

\* the last n elements of a sequence that has at least n
Suffix(s, n) == SubSeq(s, Len(s) - n + 1, Len(s))

\* C12: context eviction.  After every _update_context call the word counts of
\* the context entries sum to at most max_context_words, and the context is
\* the last entries, in arrival order, of all the entries ever appended.
C12_ContextEviction ==
    LET context == eng.transcription_context
        Sum[i \in 0..Len(context)] ==
            IF i = 0 THEN 0 ELSE Sum[i - 1] + context[i].word_count
    IN  /\ Sum[Len(context)] <= eng.max_context_words
        /\ \A i \in DOMAIN context : context[i].word_count = Len(Split(context[i].text))
        /\ Len(context) <= Len(eng_log)
        /\ context = Suffix(eng_log, Len(context))

\* an _update_context call has just evicted the oldest entries and kept more
\* than the new one
C12_Witness ==
    /\ eng_call.new_text # <<>>
    /\ Len(eng.transcription_context) >= 2
    /\ Len(eng.transcription_context) < Len(eng_log)
    /\ Last(eng.transcription_context).timestamp = eng_call.n

(***************************************************************************)
(* Properties of the worker loop (specification SpecSession).              *)
(***************************************************************************)

\* C13: inference error isolation.  When a thread leaves _transcribe_chunk it
\* is back in its loop, alive; if the inference of the segment raised, the
\* result queue is as it was and no result of that segment exists anywhere;
\* otherwise, whether or not an earlier segment failed, the result of the
\* segment has been appended to the result queue.
C13_InferenceErrorIsolation ==
    [][\A w \in Workers :
          (wk[w].pc \in {"transcribe", "detect"} /\ wk'[w].pc \notin {"transcribe", "detect"})
          => /\ wk'[w].pc = "loop"
             /\ IF wk[w].n \in failed'
                THEN /\ result_queue' = result_queue
                     /\ \A i \in DOMAIN get_log' : get_log'[i].result.n # wk[w].n
                     /\ \A i \in DOMAIN result_queue' : result_queue'[i].n # wk[w].n
                ELSE /\ Len(result_queue') = Len(result_queue) + 1
                     /\ Front(result_queue') = result_queue
                     /\ Last(result_queue').n = wk[w].n
                     /\ Last(result_queue').seg = wk[w].chunk]_vars

\* the result queue holds the result of a segment dequeued after one whose
\* inference raised, put there by the same, still running thread
C13_Witness ==
    /\ \E i \in DOMAIN result_queue : \E f \in failed : result_queue[i].n > f
    /\ \E w \in Workers : wk[w].pc = "loop"

(***************************************************************************)
(* Properties of the session life cycle (specification Spec).              *)
(***************************************************************************)

\* C14: language pinning.  A non-null language changes only in a
\* start_streaming; with an explicit language of the caller the language is
\* that one throughout and detect_language is never called; and every result
\* of the session was decoded with the language the pipeline has.
C14_LanguagePinning ==
    [][/\ (language # None /\ language' # language) => starts' # starts
       /\ user_language # None
             => (language' = user_language /\ \A w \in Workers : wk'[w].pc # "detect")
       /\ \A i \in DOMAIN result_queue' : result_queue'[i].language = language'
       /\ \A i \in DOMAIN get_log' : get_log'[i].result.language = language']_vars

\* stop_streaming can take its next step, or the thread it waits for can
StopNotStuck ==
    /\ main_pc = "stop_stream"
          => (ENABLED StopStream \/ ENABLED (VadFrame \/ VadSafetyCheck \/ VadEvict
                                               \/ VadReput \/ VadClear))
    /\ main_pc = "stop_join"
          => (ENABLED StopJoin \/ ENABLED (WorkerLoop(processing_thread)
                                             \/ WorkerGet(processing_thread)))

\* C15: cancellation.  stop_streaming sets is_streaming to false and is never
\* stuck: it returns when the worker has ended or is still inside an inference
\* call.  And a thread for which is_streaming has been false since it was
\* started (processing_thread is another thread, or is_streaming is false)
\* does not pass "while self.is_streaming" again: it leaves its loop.
C15_Cancellation ==
    [][/\ (main_pc = "idle" /\ main_pc' = "stop_stream") => ~is_streaming'
       /\ StopNotStuck
       /\ \A w \in Workers :
             (wk[w].pc = "loop" /\ (processing_thread # w \/ ~is_streaming))
             => wk'[w].pc \in {"loop", "dead"}]_vars

\* C16: reset on (re)start.  Right after a start_streaming that returns True
\* the per-session state is empty: speech buffer, silence frame count,
\* last_chunk_text, transcription context, accumulated full transcription
\* text, work queue and result queue; and language is the caller's or null.
C16_ResetOnStart ==
    [][(starts' = starts + 1 /\ is_streaming')
          => /\ speech_buffer' = <<>>
             /\ silence_frames' = 0
             /\ last_chunk_text' = <<>>
             /\ transcription_context' = <<>>
             /\ full_transcription_text' = <<>>
             /\ audio_queue' = <<>>
             /\ result_queue' = <<>>
             /\ language' = user_language]_vars

\* C17: device error on start.  After a start_streaming in which the capture
\* stream could not be created or started, is_streaming is false, no thread
\* has been started and processing_thread is as it was; and start_streaming is
\* accepted whenever is_streaming is false and no other call is running.
C17_DeviceErrorOnStart ==
    [][/\ (starts' # starts /\ ~stream_open')
             => /\ ~is_streaming'
                /\ wk' = wk
                /\ processing_thread' = processing_thread
                /\ main_pc' = "idle"
       /\ (main_pc = "idle" /\ ~is_streaming /\ starts < MaxStarts)
             => ENABLED StartStreaming]_vars

\* the first start_streaming has failed, and start_streaming can be called again
C17_Witness ==
    /\ starts = 1
    /\ processing_thread = NoThread
    /\ ~stream_open
    /\ ~is_streaming
    /\ ENABLED StartStreaming

(***************************************************************************)
(* Properties of get_transcription (specifications SpecSession, SpecGet).  *)
(***************************************************************************)

\* the positions of the results with non-empty text in a result queue
NonEmptyResults(queue) == {i \in DOMAIN queue : queue[i].text # <<>>}

\* C18: get_transcription pulls one fragment if one is available.  A call made
\* while the result queue holds a result with non-empty text returns the text
\* of the oldest such result; a call returns None only when the queue holds no
\* result with non-empty text.
C18_ReturnsAvailableFragment ==
    [][Len(get_log') = Len(get_log) + 1
          => LET available == NonEmptyResults(result_queue)
                 oldest == CHOOSE i \in available : \A j \in available : i <= j
             IN  IF available # {}
                 THEN Last(get_log').ret = ReturnedText(result_queue[oldest].text)
                 ELSE Last(get_log').ret = ReturnedNone]_vars


\* C26: the overlap reconciler is not used in VAD mode.  The text of every
\* result that the processing thread puts is the trimmed decoded text of its
\* segment, whatever the text of the segments before it: no prefix is stripped.
C26_NoReconciliationInVadMode ==
    \A i \in DOMAIN result_queue : result_queue[i].text = Strip(result_queue[i].decoded)

\* the fragments that the get_transcription calls of the session have returned
ReturnedFragments ==
    LET returning == SelectSeq(get_log, LAMBDA e : e.ret # ReturnedNone)
    IN  [i \in DOMAIN returning |-> returning[i].ret[1]]

\* C19: full-session text.  get_full_transcription() is the space-joined
\* concatenation, in arrival order, of every fragment that get_transcription
\* has returned in the session.
C19_FullSessionText == GetFullTranscription = JoinWords(ReturnedFragments)

(***************************************************************************)
(* Properties of the work queue (specification SpecSession).               *)
(***************************************************************************)

\* C20: work-queue bound.  In every reachable state the work queue holds at
\* most maxsize segments, whatever the callback, the worker and the flush of
\* stop_streaming do.
C20_WorkQueueBound == Len(audio_queue) <= QueueMaxsize

\* the callback has found the queue at capacity with a segment to put, and the
\* worker is busy with an earlier segment
C20_Witness ==
    /\ Len(audio_queue) = QueueMaxsize
    /\ cb.pc = "evict"
    /\ \E w \in Workers : wk[w].pc \in {"transcribe", "detect"}

(***************************************************************************)
(* Properties of stop_streaming (specification SpecLifecycle).             *)
(***************************************************************************)

\* C21: start/stop life cycle.  When stop_streaming returns, is_streaming is
\* false, speech_buffer and the work queue are empty and both output file
\* handles are None; while is_streaming is false stop_streaming does nothing,
\* and start_streaming is accepted.
C21_StartStopLifecycle ==
    [][/\ (main_pc = "stop_join" /\ main_pc' = "idle")
             => /\ ~is_streaming'
                /\ speech_buffer' = <<>>
                /\ audio_queue' = <<>>
                /\ sf_file' = None
                /\ text_file' = None
       /\ (main_pc = "idle" /\ ~is_streaming) => ~ENABLED StopStreaming
       /\ (main_pc = "idle" /\ ~is_streaming /\ starts < MaxStarts)
             => ENABLED StartStreaming]_vars

\* C38: a failed start leaves nothing open.  When start_streaming returns False
\* (is_streaming is back to False), the audio and text output files are not
\* open (sf_file and text_file are None) and the capture stream is not active.
C38_FailedStartLeavesNothingOpen ==
    [][(starts' # starts /\ ~is_streaming')
          => /\ sf_file' = None
             /\ text_file' = None
             /\ ~stream_open']_vars

(***************************************************************************)
(* Properties of _process_text_result (specification SpecEngine).          *)
(***************************************************************************)

\* the text is empty, or whitespace, or one bracketed annotation
BlankOrAnnotation(text) ==
    \/ \A i \in DOMAIN text : text[i] \in WhitespaceChars
    \/ /\ Len(text) >= 2
       /\ <<Head(text), Last(text)>> \in {<<"[", "]">>, <<"(", ")">>, <<"<", ">">>}
       /\ \A i \in 2..(Len(text) - 1) : text[i] # Last(text)

\* C22: every call of _process_text_result returns a record with final_text;
\* for an empty or annotation-only text the record has empty cleaned_text and
\* final_text and is_new false, and the context, the pending partials and the
\* trailing words of the transcriber are as before the call.
C22_EmptyTextIsNoOp ==
    [][eng_call'.n = eng_call.n + 1
          => /\ "final_text" \in DOMAIN eng_call'
             /\ BlankOrAnnotation(eng_call'.text)
                   => /\ eng_call'.cleaned_text = <<>>
                      /\ eng_call'.final_text = <<>>
                      /\ ~eng_call'.is_new
                      /\ eng'.transcription_context = eng.transcription_context
                      /\ eng'.partial_results = eng.partial_results
                      /\ eng'.last_words = eng.last_words
                      /\ eng'.last_text = eng.last_text]_vars

\* an annotation-only text was processed by a transcriber that has context,
\* pending partials and trailing words
C22_Witness ==
    /\ eng_call.text = AnnotationOnly
    /\ eng.transcription_context # <<>>
    /\ eng.partial_results # <<>>
    /\ eng.last_words # <<>>

\* C23: sentence-completeness test.  _is_complete_sentence(text) is true
\* exactly when the text has at least min_sentence_length words and its last
\* character is a sentence-terminal punctuation mark of the language.
C23_SentenceCompleteness ==
    (eng_call.n > 0 /\ eng_call.cleaned_text # <<>>)
    => (eng_call.is_complete_sentence
            <=> SentenceOnItsOwn(eng_call.new_text, eng.language))

\* C27: the context holds finalized fragments only.  A call of
\* _process_text_result appends an entry to the context only when it finalizes
\* a fragment, and the text of the entry is the final_text that the call emits.
C27_ContextHoldsFinalizedOnly ==
    [][Len(eng_log') = Len(eng_log) + 1
          => /\ eng_call'.final_text # <<>>
             /\ Last(eng_log').text = eng_call'.final_text]_vars

C37_RealOverlapRemoved ==
    [][(eng_call'.n = eng_call.n + 1 /\ eng_call'.cleaned_text # <<>>)
          => LET current_words  == Split(eng_call'.cleaned_text)
                 previous_words ==
                     Split(ContextText(LastN(eng.transcription_context, OverlapContextEntries)))
                 k == FindOverlap(previous_words, current_words)
             IN  k >= 1
                 => IF 10 * k > overlap_threshold_tenths * Len(current_words)
                    THEN ~eng_call'.is_new /\ eng_call'.new_text = <<>>
                    ELSE /\ eng_call'.is_new
                         /\ eng_call'.new_text = JoinWords(DropFirst(current_words, k))]_vars

\* C39: reset() restores the constructed state.  After reset the context, the
\* pending partials, the trailing words and the counters are empty or zero and
\* the language is the language the transcriber was constructed with: the
\* fields are those of a fresh instance built with the same arguments.
C39_ResetRestoresConstructedState ==
    [][(eng_call' = eng_call /\ eng' # eng)
          => eng' = EngineInit(eng.constructed_language, eng.max_context_words)]_vars

\* the text has an opening character with its closing character after it
HasAnnotation(text) ==
    \E pair \in {<<"[", "]">>, <<"(", ")">>, <<"<", ">">>} :
        \E i, j \in DOMAIN text : i < j /\ text[i] = pair[1] /\ text[j] = pair[2]

\* no leading or trailing whitespace and no run of two whitespace characters
WhitespaceNormalized(text) ==
    /\ text # <<>> => (Head(text) \notin WhitespaceChars /\ Last(text) \notin WhitespaceChars)
    /\ \A i \in 1..(Len(text) - 1) :
          ~(text[i] \in WhitespaceChars /\ text[i + 1] \in WhitespaceChars)

\* C40: _clean_text is idempotent and fully normalizes whitespace.  The cleaned
\* text of every call is a fixed point of _clean_text, contains no bracketed
\* annotation, has no leading or trailing whitespace and no run of two or more
\* whitespace characters.
C40_CleanTextNormalizes ==
    eng_call.n > 0
    => /\ CleanText(eng_call.cleaned_text) = eng_call.cleaned_text
       /\ ~HasAnnotation(eng_call.cleaned_text)
       /\ WhitespaceNormalized(eng_call.cleaned_text)

(***************************************************************************)
(* Properties of the frame loop (specification SpecSeg).                   *)
(***************************************************************************)

\* C24: segmenter state.  When a silence-triggered emission is done,
\* speech_buffer is empty and silence_frames is 0; and a speech frame is
\* appended to speech_buffer and sets silence_frames to 0.
C24_SegmenterState ==
    [][/\ (cb.pc = "clear" /\ ~cb.forced /\ cb'.pc # "clear")
             => (speech_buffer' = <<>> /\ silence_frames' = 0)
       /\ (Len(frame_log') = Len(frame_log) + 1 /\ Last(frame_log').is_speech)
             => /\ speech_buffer' = speech_buffer \o Last(frame_log').frame
                /\ silence_frames' = 0]_vars

\* C30: a classifier failure is silence for that frame only.  A frame on which
\* the classifier raises is handled as a silent frame: it is not appended,
\* silence_frames grows by one, and the segment is emitted exactly if the
\* silence threshold is then reached with speech buffered.  The frame after it
\* is handled by its own classification.
C30_ClassifierFailureIsSilence ==
    [][/\ (Len(frame_log') = Len(frame_log) + 1 /\ cb'.raised)
             => /\ ~Last(frame_log').is_speech
                /\ silence_frames' = silence_frames + 1
                /\ speech_buffer' = speech_buffer
                /\ IF /\ silence_frames' * frame_duration_ms >= cfg.silence_duration_ms
                      /\ speech_buffer # <<>>
                   THEN /\ cb'.chunk = speech_buffer
                        /\ IF Len(audio_queue) < QueueMaxsize
                           THEN audio_queue' = Append(audio_queue, speech_buffer)
                                    /\ cb'.pc = "clear"
                           ELSE audio_queue' = audio_queue /\ cb'.pc = "evict"
                   ELSE audio_queue' = audio_queue /\ cb'.pc = "loop"
       /\ (Len(frame_log') = Len(frame_log) + 1 /\ cb.raised)
             => IF Last(frame_log').is_speech
                THEN /\ speech_buffer' = speech_buffer \o Last(frame_log').frame
                     /\ silence_frames' = 0
                     /\ ~cb'.raised
                ELSE /\ speech_buffer' = speech_buffer
                     /\ silence_frames' = silence_frames + 1]_vars

\* the classifier raised on the frame that completed the silence after some
\* speech, and the segment has been put on the queue
C30_Witness ==
    /\ cb.raised
    /\ cb.pc = "clear"
    /\ ~cb.forced
    /\ cb.chunk # <<>>
    /\ cb.chunk = speech_buffer
    /\ Last(audio_queue) = cb.chunk
    /\ ~Last(frame_log).is_speech
    /\ silence_frames * frame_duration_ms >= cfg.silence_duration_ms

\* the samples of the frames classified so far
ClassifiedSamples ==
    {frame_log[i].frame[k] : i \in DOMAIN frame_log, k \in 1..cfg.samples_per_frame}

\* C35: no captured sample is skipped by the VAD segmenter.  Between two
\* callbacks every captured sample belongs to a classified frame, except the
\* samples of an incomplete trailing frame, which wait for the next callback.
C35_NoSampleSkipped ==
    cb.pc = "idle"
    => \A s \in 1..(captured - (captured % cfg.samples_per_frame)) : s \in ClassifiedSamples

(***************************************************************************)
(* Properties of the fixed-window chunker (specification SpecWindow).      *)
(* win_log has one entry for each callback: the samples buffered after the *)
(* append, whether a chunk was extracted, the chunk, and the samples       *)
(* buffered afterwards.                                                     *)
(***************************************************************************)

\* the first k samples, and the samples after them
FirstSamples(samples, k) == SubSeq(samples, 1, k)

LastSamples(samples, k) == SubSeq(samples, Len(samples) - k + 1, Len(samples))

SamplesAfter(samples, k) == SubSeq(samples, k + 1, Len(samples))

\* the callbacks after whose append the buffer held a full chunk
FullChunkCalls == {i \in DOMAIN win_log : Len(win_log[i].buffered) >= cfg.samples_per_chunk}

\* C28 as stated: fixed-window extraction.  When the buffered length after a
\* callback's append is at least samples_per_chunk, the chunk is the oldest
\* samples_per_chunk buffered samples in order, and the buffer afterwards is the
\* last samples_overlap samples of the chunk and then the samples not extracted.
C28_FixedWindowExtraction ==
    \A i \in FullChunkCalls :
        /\ win_log[i].found
        /\ win_log[i].chunk = FirstSamples(win_log[i].buffered, cfg.samples_per_chunk)
        /\ win_log[i].left = LastSamples(win_log[i].chunk, cfg.samples_overlap)
                                \o SamplesAfter(win_log[i].buffered, cfg.samples_per_chunk)

\* C28 as amended: the overlap is retained only if samples_overlap is less
\* than samples_per_chunk; otherwise the buffer afterwards is the samples not
\* extracted and nothing of the chunk.
C28_OverlapShorterThanChunk ==
    \A i \in FullChunkCalls :
        /\ win_log[i].found
        /\ win_log[i].chunk = FirstSamples(win_log[i].buffered, cfg.samples_per_chunk)
        /\ win_log[i].left =
              (IF cfg.samples_overlap < cfg.samples_per_chunk
               THEN LastSamples(win_log[i].chunk, cfg.samples_overlap)
               ELSE <<>>) \o SamplesAfter(win_log[i].buffered, cfg.samples_per_chunk)

\* a full chunk extracted from a buffer of several blocks that held more than
\* the chunk, with an overlap of one sample retained before the rest
C28_Witness ==
    /\ cfg.samples_overlap = 1
    /\ win_log # <<>>
    /\ Len(Last(win_log).buffered) > cfg.samples_per_chunk
    /\ Last(win_log).found
    /\ Len(Last(win_log).chunk) = cfg.samples_per_chunk
    /\ Len(audio_buffer) >= 2
    /\ audio_buffer[1] = <<Last(Last(win_log).chunk)>>
    /\ cb.pc = "idle"
    /\ Last(audio_queue) = Last(win_log).chunk


\* the callbacks after whose append the buffer held a minimum chunk and no
\* full chunk
ShortChunkCalls ==
    {i \in DOMAIN win_log : /\ Len(win_log[i].buffered) >= cfg.samples_per_min_chunk
                            /\ Len(win_log[i].buffered) < cfg.samples_per_chunk}

\* a short chunk: the oldest samples_per_min_chunk samples, no overlap retained
ShortChunkOf(entry) ==
    /\ entry.found
    /\ entry.chunk = FirstSamples(entry.buffered, cfg.samples_per_min_chunk)
    /\ entry.left = SamplesAfter(entry.buffered, cfg.samples_per_min_chunk)

\* nothing extracted, and every sample still buffered
NothingOf(entry) == ~entry.found /\ entry.chunk = <<>> /\ entry.left = entry.buffered

\* C29 as stated: fixed-window short chunks.  When the buffered length after a
\* callback's append is at least samples_per_min_chunk and below
\* samples_per_chunk, a chunk of exactly samples_per_min_chunk samples is
\* emitted and no overlap is retained; when it is below samples_per_min_chunk
\* nothing is emitted and the buffer keeps every sample.
C29_ShortChunks ==
    /\ \A i \in ShortChunkCalls : ShortChunkOf(win_log[i])
    /\ \A i \in DOMAIN win_log :
          Len(win_log[i].buffered) < cfg.samples_per_min_chunk => NothingOf(win_log[i])

\* C29 as amended: nothing is emitted when the buffered length is below both
\* samples_per_min_chunk and samples_per_chunk (the full chunk is tested first,
\* so a minimum chunk larger than the full chunk never holds one back).
C29_BelowBothSizes ==
    /\ \A i \in ShortChunkCalls : ShortChunkOf(win_log[i])
    /\ \A i \in DOMAIN win_log :
          (/\ Len(win_log[i].buffered) < cfg.samples_per_min_chunk
           /\ Len(win_log[i].buffered) < cfg.samples_per_chunk) => NothingOf(win_log[i])

\* a callback that left one sample waiting, and the next one that emitted a
\* short chunk of two samples and kept the third
C29_Witness ==
    /\ cfg.samples_per_min_chunk = 2
    /\ cfg.samples_overlap = 1
    /\ Len(win_log) = 2
    /\ Len(win_log[1].buffered) = 1
    /\ ~win_log[1].found
    /\ Len(win_log[2].buffered) = 3
    /\ win_log[2].found
    /\ Len(win_log[2].chunk) = 2
    /\ audio_buffer = <<<<3>>>>
    /\ audio_queue = <<<<1, 2>>>>


(***************************************************************************)
(* Properties of the ownership of the pipeline state (specification Spec). *)
(***************************************************************************)

\* a step of the caller's thread: start_streaming, a stage of stop_streaming,
\* or get_transcription
CallerStep ==
    \/ starts' # starts
    \/ main_pc' # main_pc
    \/ Len(get_log') = Len(get_log) + 1

\* a processing thread is running
WorkerAlive == \E w \in Workers : wk[w].pc # "dead"

\* C31: disjoint ownership of the pipeline state.  While the capture stream is
\* open the frame-buffering fields are written by the capture callback only,
\* and while a processing thread is running language, last_chunk_text and
\* transcription_context are written by it only: the caller's thread writes
\* none of them then.
C31_DisjointOwnership ==
    [][/\ (CallerStep /\ stream_open)
             => /\ speech_buffer' = speech_buffer
                /\ silence_frames' = silence_frames
                /\ audio_buffer' = audio_buffer
       /\ (CallerStep /\ WorkerAlive)
             => /\ language' = language
                /\ last_chunk_text' = last_chunk_text
                /\ transcription_context' = transcription_context]_vars


\* the number of samples that callback i of the session delivered
BlockSize(i) ==
    Len(win_log[i].buffered) - (IF i = 1 THEN 0 ELSE Len(win_log[i - 1].left))

\* a steady stream of small frames: every callback so far delivered one sample
SteadySmallFrames == \A i \in DOMAIN win_log : BlockSize(i) = 1

\* C32: steady input is chunked at the full window size.  With
\* samples_per_min_chunk < samples_per_chunk and a continuous stream of small
\* frames, every chunk emitted has the full samples_per_chunk size and leaves
\* its overlap seed; no short chunk is emitted.
C32_SteadyInputFullChunks ==
    (cfg.samples_per_min_chunk < cfg.samples_per_chunk /\ SteadySmallFrames)
    => \A i \in DOMAIN win_log :
          win_log[i].found
          => /\ Len(win_log[i].chunk) = cfg.samples_per_chunk
             /\ Len(win_log[i].left) >= Min(cfg.samples_overlap, cfg.samples_per_chunk - 1)


\* C33: no cross-session leakage.  In a session that start_streaming has
\* started, a thread other than the session's processing thread (the worker
\* of an earlier session whose join was given up) writes neither language nor
\* last_chunk_text nor the result queue, so get_transcription returns no
\* result of an earlier session.
C33_NoCrossSessionLeakage ==
    [][\A w \in Workers :
          (is_streaming /\ starts' = starts /\ w # processing_thread /\ wk'[w] # wk[w])
          => /\ language' = language
             /\ last_chunk_text' = last_chunk_text
             /\ result_queue' = result_queue]_vars


\* the samples of a chunk or of the buffer, as a set
SamplesOf(samples) == {samples[k] : k \in DOMAIN samples}

\* the chunks that the callbacks of the session extracted for the queue
ExtractedSamples ==
    UNION {SamplesOf(win_log[i].chunk) : i \in DOMAIN win_log}

\* samples in capture order; a sample may only be repeated as overlap
InCaptureOrder(samples) ==
    \A k \in 1..(Len(samples) - 1) : samples[k] <= samples[k + 1]

\* C36: fixed-window sample conservation.  Every captured sample is still in
\* audio_buffer or was included in a chunk, the samples of the buffer and of
\* every chunk are in capture order, every chunk has exactly samples_per_chunk
\* or samples_per_min_chunk samples, and every chunk is emitted: when the
\* callback returns, the chunk it extracted has been put on the work queue.
C36_SampleConservation ==
    [][/\ \A s \in 1..captured' :
             s \in SamplesOf(Concatenate(audio_buffer')) \cup ExtractedSamples'
       /\ InCaptureOrder(Concatenate(audio_buffer'))
       /\ \A i \in DOMAIN win_log' :
             /\ InCaptureOrder(win_log'[i].chunk)
             /\ win_log'[i].found
                   => Len(win_log'[i].chunk) \in {cfg.samples_per_chunk,
                                                   cfg.samples_per_min_chunk}
       /\ (Len(win_log') = Len(win_log) + 1 /\ Last(win_log').found /\ cb'.pc = "idle")
             => Last(audio_queue') = Last(win_log').chunk
       /\ (cb.pc \in {"chunk_evict", "chunk_reput"} /\ cb'.pc \notin {"chunk_evict", "chunk_reput"})
             => (audio_queue' # <<>> /\ Last(audio_queue') = cb.chunk)]_vars

=============================================================================
